---- MODULE Spec2Model ----
(***************************************************************************)
(* A model of the WGSL front-end orchestration of Source/WebGPU/WGSL/      *)
(* WGSL.cpp: staticCheck (parse, reorderGlobals, typeCheck,                *)
(* validateAttributes) and prepare (buildCallGraph, mangleNames,           *)
(* rewritePointers, insertBoundsChecks, rewriteEntryPoints,                *)
(* rewriteGlobalVariables).  The orchestration is translated from          *)
(* WGSL.cpp; the passes themselves live in other files of the repository   *)
(* and are modelled from their contracts.                                  *)
(***************************************************************************)
EXTENDS Integers, Sequences, FiniteSets, TLC

VARIABLES
    pc,               \* position of the caller / of the running pipeline
    wgsl,             \* the source text given to the last staticCheck call
    shaderModule,     \* the ShaderModule object, or NoModule
    owner,            \* who owns the ShaderModule
    checkResult,      \* the variant returned by staticCheck
    pipelineLayouts,  \* the argument of the running prepare call
    callGraph,        \* local of prepareImpl's lambda
    entryPoints,      \* local of prepareImpl's lambda
    compilationScope, \* the CompilationScope of the prepare call
    prepareResult,    \* the variant returned by prepare
    prepareArgs,      \* which prepare overload was called last, with its arguments
    prepareCalls,     \* prepare calls made on the checked module so far
    trace,            \* passes invoked by the current pipeline call, in order
    produced,         \* warnings the passes of the current call produced
    expression,       \* the AST::Expression node given to evaluate
    evalLog,          \* the evaluate calls made on the node, in order
    genLog,           \* the generate calls made, in order
    compilations,     \* the pipelines of several callers, each on its own module
    accesses,         \* the indexed accesses of a module, with their runtime checks
    boundsChecked,    \* whether insertBoundsChecks has run under the live scope
    transition,       \* a ViewTransition object of a document, or NoTransition
    history,          \* the History objects of a page and the wall clock
    authenticator     \* a WebAuthenticatorCoordinatorProxy and its requests

pipelineVars ==
    <<pc, wgsl, shaderModule, owner, checkResult, pipelineLayouts, callGraph,
      entryPoints, compilationScope, prepareResult, prepareArgs, prepareCalls,
      trace, produced>>

evalVars == <<expression, evalLog>>

genVars == <<genLog>>

concVars == <<compilations>>

boundsVars == <<accesses, boundsChecked>>

vtVars == <<transition>>

(* The state of the WebCore and WebKit classes modelled besides the WGSL
   compiler. *)
historyVars == <<history>>

authVars == <<authenticator>>

webVars == <<vtVars, historyVars, authVars>>

outsidePipeline == <<evalVars, genVars, concVars, boundsVars, webVars>>

vars == <<pipelineVars, evalVars, genVars, concVars, boundsVars, webVars>>

----------------------------------------------------------------------------
(* Bounds and input domains *)

MaxTypeErrors == 2
MaxPrepare == 2
MaxEvaluations == 2
MaxGenerations == 2

Globals == {"a", "b"}
Functions == {"main", "frag", "helper"}
EntryPointNames == {"main", "frag"}
EntryPointNameArguments == EntryPointNames \cup {"helper"}
Bindings == {"b0", "b1"}
SyntaxErrorCounts == {0, 1}
TypeErrorCounts == 0..MaxTypeErrors
AttributeErrorCounts == {0, 1}

NoModule == [kind |-> "NoModule"]
NoSource == [kind |-> "None"]
NoResult == [kind |-> "None"]
NoLayouts == [kind |-> "None"]
NoArguments == [form |-> "none"]
NoCallGraph == [kind |-> "None"]
NoEntryPoints == [e \in {} |-> {}]
NoBinding == "none"

DepPairs == Globals \X Globals
CallPairs == {<<"main", "helper">>}
WarningPasses == {"parse", "typeCheck"}

(* The inputs of staticCheck: what the passes can observe of a source text. *)
Sources ==
    [syntaxErrors : SyntaxErrorCounts,
     deps : SUBSET DepPairs,
     typeErrors : TypeErrorCounts,
     attrErrors : AttributeErrorCounts,
     calls : SUBSET CallPairs,
     uses : [Functions -> Bindings \cup {NoBinding}]]

(* An optional<PipelineLayout>: nullopt, or the set of bindings it supplies. *)
OptionalLayouts ==
    {[present |-> FALSE, bindings |-> {}]}
        \cup {[present |-> TRUE, bindings |-> B] : B \in SUBSET Bindings}

(* HashMap<String, std::optional<PipelineLayout>> *)
LayoutMaps ==
    UNION {[K -> OptionalLayouts] : K \in SUBSET EntryPointNames}

----------------------------------------------------------------------------
(* The ShaderModule and the passes of staticCheck *)

DeclarationOrder == <<"a", "b">>

makeModule(src) ==
    [kind |-> "ShaderModule", source |-> src, globals |-> <<>>,
     applied |-> <<>>, rewritten |-> <<>>]

Diagnostics(pass, n) == {<<pass, i>> : i \in 1..n}

PassOutcome(failure, m) == [failure |-> failure, module |-> m]

Mark(pass, m) == [m EXCEPT !.applied = Append(@, pass)]

TransitiveClosure(R) ==
    LET step(C) == C \cup {<<p[1][1], p[2][2]>> : p \in {q \in C \X C : q[1][2] = q[2][1]}}
        RECURSIVE iter(_, _)
        iter(C, n) == IF n = 0 THEN C ELSE iter(step(C), n - 1)
    IN iter(R, Cardinality(Globals))

HasCycle(deps) == \E g \in Globals : <<g, g>> \in TransitiveClosure(deps)

SeqToSet(s) == {s[i] : i \in DOMAIN s}

(* The globals are left in declaration order. *)
DeclarationOrderKept(order, deps, emitted) == order

(* Emit, in declaration order, the first global all of whose dependencies
   have been emitted already; repeat. *)
RECURSIVE TopologicalOrder(_, _, _)
TopologicalOrder(order, deps, emitted) ==
    LET ready == {i \in DOMAIN order :
                    /\ order[i] \notin SeqToSet(emitted)
                    /\ \A d \in Globals :
                         <<order[i], d>> \in deps => d \in SeqToSet(emitted)}
    IN IF ready = {} THEN emitted
       ELSE LET i == CHOOSE j \in ready : \A k \in ready : j <= k
            IN TopologicalOrder(order, deps, Append(emitted, order[i]))

parse(m) ==
    LET n == m.source.syntaxErrors
    IN IF n > 0
       THEN PassOutcome(Diagnostics("parse", n), m)
       ELSE PassOutcome({}, Mark("parse", [m EXCEPT !.globals = DeclarationOrder]))

reorderGlobals(m) ==
    IF HasCycle(m.source.deps)
    THEN PassOutcome(Diagnostics("reorderGlobals", 1), m)
    ELSE PassOutcome({},
             Mark("reorderGlobals",
                  [m EXCEPT !.globals = TopologicalOrder(@, m.source.deps, <<>>)]))

typeCheck(m) ==
    LET n == m.source.typeErrors
    IN PassOutcome(Diagnostics("typeCheck", n),
                   IF n = 0 THEN Mark("typeCheck", m) ELSE m)

validateAttributes(m) ==
    LET n == m.source.attrErrors
    IN PassOutcome(Diagnostics("validateAttributes", n),
                   IF n = 0 THEN Mark("validateAttributes", m) ELSE m)

(* The non-fatal warnings a run of the pass may produce: none, or one
   warning for a pass that supports warnings. *)
PossibleWarnings(pass) ==
    IF pass \in WarningPasses THEN {{}, {<<pass, "warning">>}} ELSE {{}}

RunCheckPass(pass, m) ==
    CASE pass = "parse" -> parse(m)
      [] pass = "reorderGlobals" -> reorderGlobals(m)
      [] pass = "typeCheck" -> typeCheck(m)
      [] pass = "validateAttributes" -> validateAttributes(m)

----------------------------------------------------------------------------
(* staticCheck *)

(* The CHECK_PASS lines of staticCheck, in textual order. *)
CheckPasses == <<"parse", "reorderGlobals", "typeCheck", "validateAttributes">>

IndexOf(seq, x) == CHOOSE i \in DOMAIN seq : seq[i] = x

(* typeCheck and reorderGlobals exchanged. *)
AfterCheckPassSwapped(pass) ==
    CASE pass = "parse" -> "typeCheck"
      [] pass = "typeCheck" -> "reorderGlobals"
      [] pass = "reorderGlobals" -> "validateAttributes"
      [] OTHER -> "staticCheck.return"

(* The statement that follows CHECK_PASS(pass) in staticCheck. *)
AfterCheckPass(pass) ==
    LET i == IndexOf(CheckPasses, pass)
    IN IF i < Len(CheckPasses) THEN CheckPasses[i + 1] ELSE "staticCheck.return"

(* The failure of a pass is not examined. *)
HasFailureIgnored(failure) == FALSE

(* if (maybe##pass##Failure) *)
HasFailure(failure) == failure /= {}

(* return { *maybe##pass##Failure }; *)
FailedCheck(failure) == [kind |-> "FailedCheck", errors |-> failure]

(* Vector<Warning> warnings { }; *)
SuccessWarnings(producedWarnings) == {}

(* A newly constructed module is returned instead of the checked one. *)
MovedModuleFresh(m) == makeModule(m.source)

(* WTFMove(shaderModule) into the SuccessfulCheck *)
MovedModule(m) == m

SuccessfulCheck(warnings) ==
    [kind |-> "SuccessfulCheck", warnings |-> warnings]

(* A pass is a synchronous call: it is entered, runs, and returns its
   optional failure before the next statement of the pipeline runs. *)
Invocation(pass, failure) ==
    <<[ev |-> "call", pass |-> pass, failure |-> {}],
      [ev |-> "return", pass |-> pass, failure |-> failure]>>

(* The module outlives the failed call. *)
DestroyedModuleLeaked(m) == m

(* ~UniqueRef<ShaderModule> when staticCheck returns early. *)
DestroyedModule(m) == NoModule

callVars == <<prepareArgs, prepareCalls>>

prepareVars == <<pipelineLayouts, callGraph, entryPoints, compilationScope,
                 prepareResult, callVars>>

(* staticCheck is entered: the ShaderModule is constructed (line 72). *)
StaticCheckCall ==
    /\ pc = "idle"
    /\ \E source \in Sources :
         /\ wgsl' = source
         /\ shaderModule' = makeModule(source)
    /\ owner' = "staticCheck"
    /\ checkResult' = NoResult
    /\ trace' = <<>>
    /\ produced' = {}
    /\ pc' = CheckPasses[1]
    /\ UNCHANGED prepareVars
    /\ UNCHANGED outsidePipeline

(* One CHECK_PASS line of staticCheck: run the pass, return on failure. *)
StaticCheckPass ==
    /\ pc \in SeqToSet(CheckPasses)
    /\ owner = "staticCheck"
    /\ \E w \in PossibleWarnings(pc) : produced' = produced \cup w
    /\ LET r == RunCheckPass(pc, shaderModule)
       IN /\ trace' = trace \o Invocation(pc, r.failure)
          /\ IF HasFailure(r.failure)
             THEN /\ checkResult' = FailedCheck(r.failure)
                  /\ shaderModule' = DestroyedModule(shaderModule)
                  /\ owner' = "none"
                  /\ pc' = "checked"
             ELSE /\ shaderModule' = r.module
                  /\ pc' = AfterCheckPass(pc)
                  /\ UNCHANGED <<checkResult, owner>>
    /\ UNCHANGED wgsl
    /\ UNCHANGED prepareVars
    /\ UNCHANGED outsidePipeline

(* Lines 79-80: all passes succeeded. *)
StaticCheckReturn ==
    /\ pc = "staticCheck.return"
    /\ checkResult' = SuccessfulCheck(SuccessWarnings(produced))
    /\ shaderModule' = MovedModule(shaderModule)
    /\ owner' = "SuccessfulCheck"
    /\ pc' = "checked"
    /\ UNCHANGED <<wgsl, trace, produced>>
    /\ UNCHANGED prepareVars
    /\ UNCHANGED outsidePipeline

----------------------------------------------------------------------------
(* The steps of prepare *)

(* The functions a function reaches through calls, itself included. *)
Reachable(m, f) ==
    LET step(S) == S \cup {c[2] : c \in {d \in m.source.calls : d[1] \in S}}
        RECURSIVE iter(_, _)
        iter(S, n) == IF n = 0 THEN S ELSE iter(step(S), n - 1)
    IN iter({f}, Cardinality(Functions))

ResourcesOf(m, f) ==
    {m.source.uses[g] : g \in Reachable(m, f)} \ {NoBinding}

Rewrite(step, m) == [m EXCEPT !.rewritten = Append(@, step)]

Transform(step, cg) == [cg EXCEPT !.steps = Append(@, step)]

(* Entry points of the module that are keys of the layout map. *)
RequestedEntryPoints(layouts) == EntryPointNames \cap DOMAIN layouts

buildCallGraph(m, layouts) ==
    LET requested == RequestedEntryPoints(layouts)
    IN [callGraph |->
            [kind |-> "CallGraph",
             entrypoints |-> requested,
             functions |-> UNION {Reachable(m, e) : e \in requested},
             steps |-> <<"buildCallGraph">>],
        entryPoints |->
            [e \in requested |-> [resources |-> ResourcesOf(m, e),
                                  mangled |-> FALSE]],
        module |-> Rewrite("buildCallGraph", m)]

mangleNames(cg, eps) ==
    [callGraph |-> Transform("mangleNames", cg),
     entryPoints |-> [e \in DOMAIN eps |-> [eps[e] EXCEPT !.mangled = TRUE]]]

(* The bindings an entry point uses that its supplied layout lacks. *)
MissingBindings(cg, layouts, m) ==
    {<<e, b>> \in cg.entrypoints \X Bindings :
        /\ layouts[e].present
        /\ b \in ResourcesOf(m, e)
        /\ b \notin layouts[e].bindings}

rewriteGlobalVariables(cg, layouts, m) ==
    LET missing == MissingBindings(cg, layouts, m)
    IN IF missing /= {}
       THEN [failure |-> missing, callGraph |-> cg, module |-> m]
       ELSE [failure |-> {},
             callGraph |-> Transform("rewriteGlobalVariables", cg),
             module |-> Rewrite("rewriteGlobalVariables", m)]

(* The rewrites made under the scope stay on the module. *)
TearDownNothing(m) == m

(* ~CompilationScope: the rewrites made under the scope are undone. *)
TearDown(m) == [m EXCEPT !.rewritten = <<>>]

----------------------------------------------------------------------------
(* prepareImpl *)

(* The pass lines of prepareImpl's lambda, in textual order. *)
PrepareSteps ==
    <<"buildCallGraph", "mangleNames", "rewritePointers", "insertBoundsChecks",
      "rewriteEntryPoints", "rewriteGlobalVariables">>

(* The lines run through RUN_PASS, whose result is not examined. *)
RunPasses ==
    {"mangleNames", "rewritePointers", "insertBoundsChecks", "rewriteEntryPoints"}

(* mangleNames and rewritePointers exchanged. *)
AfterPrepareStepSwapped(step) ==
    CASE step = "buildCallGraph" -> "rewritePointers"
      [] step = "rewritePointers" -> "mangleNames"
      [] step = "mangleNames" -> "insertBoundsChecks"
      [] step = "insertBoundsChecks" -> "rewriteEntryPoints"
      [] step = "rewriteEntryPoints" -> "rewriteGlobalVariables"
      [] OTHER -> "prepare.return"

(* buildCallGraph is never returned from. *)
AfterPrepareStepAbandoned(step) ==
    IF step = "buildCallGraph" THEN "abandoned"
    ELSE LET i == IndexOf(PrepareSteps, step)
         IN IF i < Len(PrepareSteps) THEN PrepareSteps[i + 1] ELSE "prepare.return"

AfterPrepareStep(step) ==
    LET i == IndexOf(PrepareSteps, step)
    IN IF i < Len(PrepareSteps) THEN PrepareSteps[i + 1] ELSE "prepare.return"

(* The failure of the pass is not carried into the Error. *)
PrepareErrorWithoutFailure(failure) == [kind |-> "Error", error |-> {}]

(* return { *maybe##pass##Failure }; at line 107 *)
PrepareError(failure) == [kind |-> "Error", error |-> failure]

(* The entry-point map is not moved into the result. *)
PrepareResultWithoutEntryPoints(cg, eps) ==
    [kind |-> "PrepareResult", callGraph |-> cg, entryPoints |-> NoEntryPoints]

(* The call graph is not moved into the result. *)
PrepareResultWithoutCallGraph(cg, eps) ==
    [kind |-> "PrepareResult", callGraph |-> NoCallGraph, entryPoints |-> eps]

(* PrepareResult { WTFMove(callGraph), WTFMove(entryPoints), WTFMove(compilationScope) } *)
PrepareResult(cg, eps) ==
    [kind |-> "PrepareResult", callGraph |-> cg, entryPoints |-> eps]

checkVars == <<wgsl, checkResult, owner>>

(* The local CompilationScope outlives the return of prepareImpl. *)
LocalScopeLeaked == "prepareImpl"

(* prepareImpl returns the Error (line 116): its local CompilationScope,
   never moved from, is destroyed as the function exits (line 117). *)
LocalScopeAtExit == "destroyed"

(* WTFMove(compilationScope) at line 111: the PrepareResult holds the scope. *)
MovedScope == "PrepareResult"

(* The layout argument is not added to the map. *)
SingleEntryMapWithoutLayout(entryPointName, pipelineLayout) ==
    [e \in {entryPointName} |-> [present |-> FALSE, bindings |-> {}]]

(* Every entry point of the module is added to the map. *)
SingleEntryMapOfAll(entryPointName, pipelineLayout) ==
    [e \in EntryPointNames \cup {entryPointName} |-> pipelineLayout]

(* The one-entry map the convenience overload builds (lines 138-139). *)
SingleEntryMap(entryPointName, pipelineLayout) ==
    [e \in {entryPointName} |-> pipelineLayout]

(* prepareImpl is entered with the map and its CompilationScope is
   constructed (line 95). *)
EnterPrepareImpl(layouts) ==
    /\ pipelineLayouts' = layouts
    /\ compilationScope' = "prepareImpl"
    /\ callGraph' = NoCallGraph
    /\ entryPoints' = NoEntryPoints
    /\ prepareCalls' = prepareCalls + 1
    /\ trace' = <<>>
    /\ produced' = {}
    /\ pc' = PrepareSteps[1]
    /\ UNCHANGED <<shaderModule, prepareResult>>
    /\ UNCHANGED checkVars

(* The caller holds a checked module and no earlier result of prepare. *)
MayCallPrepare ==
    /\ pc = "checked"
    /\ checkResult.kind = "SuccessfulCheck"
    /\ prepareResult = NoResult
    /\ prepareCalls < MaxPrepare

(* prepare(ast, pipelineLayouts) *)
PrepareCall ==
    /\ MayCallPrepare
    /\ \E layouts \in LayoutMaps :
         /\ prepareArgs' = [form |-> "map"]
         /\ EnterPrepareImpl(layouts)
    /\ UNCHANGED outsidePipeline

(* prepare(ast, entryPointName, pipelineLayout) *)
PrepareCallSingle ==
    /\ MayCallPrepare
    /\ \E name \in EntryPointNameArguments, layout \in OptionalLayouts :
         /\ prepareArgs' = [form |-> "single", name |-> name, layout |-> layout]
         /\ EnterPrepareImpl(SingleEntryMap(name, layout))
    /\ UNCHANGED outsidePipeline

(* RUN_PASS_WITH_RESULT(callGraph, buildCallGraph, ...) *)
PrepareBuildCallGraph ==
    /\ pc = "buildCallGraph"
    /\ LET r == buildCallGraph(shaderModule, pipelineLayouts)
       IN /\ callGraph' = r.callGraph
          /\ entryPoints' = r.entryPoints
          /\ shaderModule' = r.module
    /\ trace' = trace \o Invocation(pc, {})
    /\ pc' = AfterPrepareStep(pc)
    /\ UNCHANGED <<pipelineLayouts, compilationScope, prepareResult,
                   produced>>
    /\ UNCHANGED callVars
    /\ UNCHANGED checkVars
    /\ UNCHANGED outsidePipeline

(* The four RUN_PASS lines. *)
PrepareRunPass ==
    /\ pc \in RunPasses
    /\ IF pc = "mangleNames"
       THEN LET r == mangleNames(callGraph, entryPoints)
            IN /\ callGraph' = r.callGraph
               /\ entryPoints' = r.entryPoints
       ELSE /\ callGraph' = Transform(pc, callGraph)
            /\ UNCHANGED entryPoints
    /\ shaderModule' = Rewrite(pc, shaderModule)
    /\ trace' = trace \o Invocation(pc, {})
    /\ pc' = AfterPrepareStep(pc)
    /\ UNCHANGED <<pipelineLayouts, compilationScope, prepareResult,
                   produced>>
    /\ UNCHANGED callVars
    /\ UNCHANGED checkVars
    /\ UNCHANGED outsidePipeline

(* CHECK_PASS(rewriteGlobalVariables, ...): on failure the lambda returns the
   Error, prepareImpl returns it and its CompilationScope is destroyed. *)
PrepareCheckPass ==
    /\ pc = "rewriteGlobalVariables"
    /\ LET r == rewriteGlobalVariables(callGraph, pipelineLayouts, shaderModule)
       IN /\ trace' = trace \o Invocation(pc, r.failure)
          /\ IF HasFailure(r.failure)
             THEN /\ prepareResult' = PrepareError(r.failure)
                  /\ callGraph' = NoCallGraph
                  /\ entryPoints' = NoEntryPoints
                  /\ compilationScope' = LocalScopeAtExit
                  /\ shaderModule' = TearDown(r.module)
                  /\ pc' = "checked"
             ELSE /\ callGraph' = r.callGraph
                  /\ shaderModule' = r.module
                  /\ pc' = AfterPrepareStep(pc)
                  /\ UNCHANGED <<prepareResult, entryPoints, compilationScope>>
    /\ UNCHANGED <<pipelineLayouts, produced>>
    /\ UNCHANGED callVars
    /\ UNCHANGED checkVars
    /\ UNCHANGED outsidePipeline

(* Line 111: the locals are moved into the PrepareResult. *)
PrepareReturn ==
    /\ pc = "prepare.return"
    /\ prepareResult' = PrepareResult(callGraph, entryPoints)
    /\ compilationScope' = MovedScope
    /\ callGraph' = NoCallGraph
    /\ entryPoints' = NoEntryPoints
    /\ pc' = "checked"
    /\ UNCHANGED <<pipelineLayouts, shaderModule, trace, produced>>
    /\ UNCHANGED callVars
    /\ UNCHANGED checkVars
    /\ UNCHANGED outsidePipeline

(* The caller destroys the value prepare returned; a PrepareResult takes its
   CompilationScope with it. *)
ReleasePrepareResult ==
    /\ pc = "checked"
    /\ prepareResult /= NoResult
    /\ IF prepareResult.kind = "PrepareResult"
       THEN /\ compilationScope' = "destroyed"
            /\ shaderModule' = TearDown(shaderModule)
       ELSE UNCHANGED <<compilationScope, shaderModule>>
    /\ prepareResult' = NoResult
    /\ UNCHANGED <<pc, pipelineLayouts, callGraph, entryPoints, trace,
                   produced>>
    /\ UNCHANGED callVars
    /\ UNCHANGED checkVars
    /\ UNCHANGED outsidePipeline

(* The caller destroys the value staticCheck returned, and with a
   SuccessfulCheck the ShaderModule it owns. *)
ReleaseCheckResult ==
    /\ pc = "checked"
    /\ prepareResult = NoResult
    /\ pc' = "idle"
    /\ wgsl' = NoSource
    /\ pipelineLayouts' = NoLayouts
    /\ shaderModule' = NoModule
    /\ owner' = "none"
    /\ checkResult' = NoResult
    /\ compilationScope' = "none"
    /\ trace' = <<>>
    /\ produced' = {}
    /\ prepareArgs' = NoArguments
    /\ prepareCalls' = 0
    /\ UNCHANGED <<callGraph, entryPoints, prepareResult>>
    /\ UNCHANGED outsidePipeline

----------------------------------------------------------------------------

PipelineInit ==
    /\ pc = "idle"
    /\ prepareArgs = NoArguments
    /\ prepareCalls = 0
    /\ wgsl = NoSource
    /\ shaderModule = NoModule
    /\ owner = "none"
    /\ checkResult = NoResult
    /\ pipelineLayouts = NoLayouts
    /\ callGraph = NoCallGraph
    /\ entryPoints = NoEntryPoints
    /\ compilationScope = "none"
    /\ prepareResult = NoResult
    /\ trace = <<>>
    /\ produced = {}

----------------------------------------------------------------------------
(* evaluate *)

Identifiers == {"x", "y"}

(* ConstantValue: the default-constructed value and two others. *)
DefaultConstantValue == "empty"
ConstantValues == {DefaultConstantValue, "v1", "v2"}

(* std::optional<ConstantValue> with no value. *)
NoConstantValue == "nullopt"

NoExpression == [kind |-> "None"]

(* AST::Expression nodes: identifier references and another kind of
   expression, each with or without a cached constant value. *)
Expressions ==
    [kind : {"IdentifierExpression"}, identifier : Identifiers,
     constantValue : ConstantValues \cup {NoConstantValue}]
      \cup [kind : {"LiteralExpression"}, identifier : {"-"},
            constantValue : ConstantValues \cup {NoConstantValue}]

(* HashMap<String, ConstantValue> *)
ConstantMaps == UNION {[K -> ConstantValues] : K \in SUBSET Identifiers}

(* HashMap::get: the mapped value, or a default-constructed one. *)
HashMapGet(map, key) ==
    IF key \in DOMAIN map THEN map[key] ELSE DefaultConstantValue

Returned(value, node, lookup) ==
    [outcome |-> "return", value |-> value, expression |-> node,
     lookup |-> lookup]

(* ASSERT(is<const AST::IdentifierExpression>(expression)) fails. *)
Aborted(node) ==
    [outcome |-> "abort", value |-> NoConstantValue, expression |-> node,
     lookup |-> FALSE]

(* The cached value is not consulted. *)
evaluateWithoutMemo(node, constants) ==
    IF node.kind /= "IdentifierExpression"
    THEN Aborted(node)
    ELSE LET constantValue == HashMapGet(constants, node.identifier)
         IN Returned(constantValue,
                     [node EXCEPT !.constantValue = constantValue], TRUE)

(* The looked-up value is not cached onto the node. *)
evaluateWithoutCaching(node, constants) ==
    IF node.constantValue /= NoConstantValue
    THEN Returned(node.constantValue, node, FALSE)
    ELSE IF node.kind /= "IdentifierExpression"
    THEN Aborted(node)
    ELSE Returned(HashMapGet(constants, node.identifier), node, TRUE)

(* The kind of the expression is not asserted. *)
evaluateWithoutAssert(node, constants) ==
    IF node.constantValue /= NoConstantValue
    THEN Returned(node.constantValue, node, FALSE)
    ELSE LET constantValue ==
                 IF node.kind = "IdentifierExpression"
                 THEN HashMapGet(constants, node.identifier)
                 ELSE DefaultConstantValue
         IN Returned(constantValue,
                     [node EXCEPT !.constantValue = constantValue], TRUE)

(* The map's entry for the identifier, when there is one, is preferred to
   the cached value. *)
evaluatePreferringMap(node, constants) ==
    IF node.kind = "IdentifierExpression" /\ node.identifier \in DOMAIN constants
    THEN Returned(constants[node.identifier],
                  [node EXCEPT !.constantValue = constants[node.identifier]],
                  TRUE)
    ELSE IF node.constantValue /= NoConstantValue
    THEN Returned(node.constantValue, node, FALSE)
    ELSE IF node.kind /= "IdentifierExpression"
    THEN Aborted(node)
    ELSE Returned(DefaultConstantValue,
                  [node EXCEPT !.constantValue = DefaultConstantValue], TRUE)

(* An identifier the map does not hold is treated as an invariant
   violation. *)
evaluateAbortOnAbsent(node, constants) ==
    IF node.constantValue /= NoConstantValue
    THEN Returned(node.constantValue, node, FALSE)
    ELSE IF node.kind /= "IdentifierExpression"
            \/ node.identifier \notin DOMAIN constants
    THEN Aborted(node)
    ELSE Returned(constants[node.identifier],
                  [node EXCEPT !.constantValue = constants[node.identifier]],
                  TRUE)

(* evaluate(expression, constants), lines 143-151. *)
evaluate(node, constants) ==
    IF node.constantValue /= NoConstantValue
    THEN Returned(node.constantValue, node, FALSE)
    ELSE IF node.kind /= "IdentifierExpression"
    THEN Aborted(node)
    ELSE LET constantValue == HashMapGet(constants, node.identifier)
         IN Returned(constantValue,
                     [node EXCEPT !.constantValue = constantValue], TRUE)

(* A caller evaluates the node against a constants map of its choice. *)
Evaluate ==
    /\ expression /= NoExpression
    /\ Len(evalLog) < MaxEvaluations
    /\ \A i \in DOMAIN evalLog : evalLog[i].outcome /= "abort"
    /\ \E constants \in ConstantMaps :
         LET r == evaluate(expression, constants)
         IN /\ expression' = r.expression
            /\ evalLog' = Append(evalLog,
                   [before |-> expression, constants |-> constants,
                    outcome |-> r.outcome, value |-> r.value,
                    lookup |-> r.lookup, after |-> r.expression])
    /\ UNCHANGED <<pipelineVars, genVars, concVars, boundsVars, webVars>>

----------------------------------------------------------------------------
(* generate *)

(* The call graphs handed to generate: those prepare can return. *)
GeneratedCallGraphs ==
    [kind : {"CallGraph"}, entrypoints : SUBSET EntryPointNames,
     functions : {{}}, steps : {PrepareSteps}]

(* Metal::generateMetalCode: the text is a function of its two arguments. *)
generateMetalCode(cg, constantValues) ==
    <<"metal", cg.entrypoints, constantValues>>

(* The result of the generator is dropped. *)
generateNothing(cg, constantValues) ==
    [text |-> <<>>, callGraph |-> cg]

(* generate(callGraph, constantValues), lines 119-129: the call graph is
   taken by const reference. *)
generate(cg, constantValues) ==
    [text |-> generateMetalCode(cg, constantValues), callGraph |-> cg]

Generate ==
    /\ Len(genLog) < MaxGenerations
    /\ \E cg \in GeneratedCallGraphs, constantValues \in ConstantMaps :
         LET r == generate(cg, constantValues)
         IN genLog' = Append(genLog,
                [callGraph |-> cg, constantValues |-> constantValues,
                 text |-> r.text, callGraphAfter |-> r.callGraph])
    /\ UNCHANGED <<pipelineVars, evalVars, concVars, boundsVars, webVars>>

----------------------------------------------------------------------------
(* insertBoundsChecks *)

AccessSites == {"s1", "s2", "s3"}

(* The arrays are of a statically known length; a constant index is one the
   type checker has found within it. *)
ArrayLengths == {1, 2, 3}

(* An indexed access: the index is a compile-time constant within the
   bounds of the array, or computed at runtime (its value, unknown, is
   written -1). *)
IndexedAccesses ==
    {a \in [index : {"constant"}, value : {0, 1, 2}, length : ArrayLengths,
            checks : {0}] : a.value < a.length}
      \cup [index : {"runtime"}, value : {-1}, length : ArrayLengths,
            checks : {0}]

NoAccesses == [s \in {} |-> {}]

(* Every access gets a runtime check. *)
insertBoundsChecksEverywhere(as) ==
    [s \in DOMAIN as |-> [as[s] EXCEPT !.checks = @ + 1]]

(* insertBoundsChecks: an access through a runtime-computed index gets a
   runtime check; a constant index within the bounds gets none. *)
insertBoundsChecks(as) ==
    [s \in DOMAIN as |->
        IF as[s].index = "runtime"
        THEN [as[s] EXCEPT !.checks = @ + 1]
        ELSE as[s]]

(* ~CompilationScope: the inserted checks are removed with the other
   rewrites of the call. *)
RemoveBoundsChecks(as) == [s \in DOMAIN as |-> [as[s] EXCEPT !.checks = 0]]

(* RUN_PASS(insertBoundsChecks, shaderModule): once in a prepare call. *)
InsertBoundsChecks ==
    /\ accesses /= NoAccesses
    /\ ~boundsChecked
    /\ accesses' = insertBoundsChecks(accesses)
    /\ boundsChecked' = TRUE
    /\ UNCHANGED <<pipelineVars, evalVars, genVars, concVars, webVars>>

(* The prepare call's CompilationScope ends. *)
EndBoundsCheckedScope ==
    /\ boundsChecked
    /\ accesses' = RemoveBoundsChecks(accesses)
    /\ boundsChecked' = FALSE
    /\ UNCHANGED <<pipelineVars, evalVars, genVars, concVars, webVars>>

----------------------------------------------------------------------------
(* Several callers, each compiling its own module *)

Compilations == {"c1", "c2"}

(* The debug options: dump the AST between passes, log the phase times. *)
Options == [dumpAST : BOOLEAN, logPhaseTimes : BOOLEAN]

NoOptions == [dumpAST |-> FALSE, logPhaseTimes |-> FALSE]

CleanSource ==
    [syntaxErrors |-> 0, deps |-> {<<"a", "b">>}, typeErrors |-> 0,
     attrErrors |-> 0, calls |-> CallPairs,
     uses |-> [f \in Functions |->
                 CASE f = "main" -> NoBinding
                   [] f = "frag" -> "b0"
                   [] OTHER -> "b1"]]

(* The sources the callers compile: two that check, one with a type error,
   one with a dependency cycle. *)
CompiledSources ==
    {CleanSource,
     [CleanSource EXCEPT !.deps = {}, !.calls = {}],
     [CleanSource EXCEPT !.typeErrors = 1],
     [CleanSource EXCEPT !.deps = {<<"a", "b">>, <<"b", "a">>}]}

(* The layout maps the callers prepare with: one that supplies what main
   needs from CleanSource, one that does not. *)
CompiledLayouts ==
    {[e \in {"main"} |-> [present |-> TRUE, bindings |-> {"b1"}]],
     [e \in {"main"} |-> [present |-> TRUE, bindings |-> {}]]}

(* A caller that has called nothing yet. *)
IdleCompilation ==
    [pc |-> "idle", options |-> NoOptions, wgsl |-> NoSource,
     module |-> NoModule, checkResult |-> NoResult, layouts |-> NoLayouts,
     callGraph |-> NoCallGraph, entryPoints |-> NoEntryPoints,
     scope |-> "none", prepareResult |-> NoResult, events |-> <<>>,
     phaseTimes |-> <<>>]

(* The dump rewrites the module it prints. *)
AfterDumpRewritten(options, m) ==
    IF options.dumpAST THEN Rewrite("dump", m) ELSE m

(* dumpASTBetweenEachPassIfNeeded / dumpASTAtEndIfNeeded: the module is
   printed, not changed. *)
AfterDump(options, m) == m

(* What a dump adds to the output, when the option is set. *)
Dump(options, label) ==
    IF options.dumpAST
    THEN <<[ev |-> "dump", pass |-> label, failure |-> {}]>>
    ELSE <<>>

(* logPhaseTimes(phaseTimes) *)
LogPhaseTimes(options) ==
    IF options.logPhaseTimes
    THEN <<[ev |-> "log", pass |-> "prepare total", failure |-> {}]>>
    ELSE <<>>

(* The dump follows the pass. *)
LineEventsDumpLast(options, pass, failure) ==
    Invocation(pass, failure) \o Dump(options, pass)

(* What a pass line of the three macros does, in order: the dump before the
   pass, then the pass. *)
LineEvents(options, pass, failure) ==
    Dump(options, pass) \o Invocation(pass, failure)

(* Every caller works on the module of the first caller, once there is one. *)
SharedCompilation(all, c) ==
    IF all["c1"].module = NoModule
    THEN all[c]
    ELSE [all[c] EXCEPT !.module = all["c1"].module]

(* A pipeline call works on the module of its own caller: staticCheck on
   the module it constructs (line 72), prepare on the module passed to it
   (line 93); the phase times are a local of the call (lines 71, 97). *)
OwnCompilation(all, c) == all[c]

(* staticCheck(wgsl, ..., configuration) is entered. *)
StartStaticCheck(source, options) ==
    [IdleCompilation EXCEPT !.pc = CheckPasses[1], !.options = options,
                            !.wgsl = source, !.module = makeModule(source)]

(* One CHECK_PASS line of staticCheck: dump, then run the timed pass, then
   return on a failure. *)
CheckPassLine(r) ==
    LET out == RunCheckPass(r.pc, AfterDump(r.options, r.module))
        after == [r EXCEPT
                    !.events = @ \o LineEvents(r.options, r.pc, out.failure),
                    !.phaseTimes = Append(@, r.pc)]
    IN IF HasFailure(out.failure)
       THEN [after EXCEPT !.checkResult = FailedCheck(out.failure),
                          !.module = DestroyedModule(r.module),
                          !.pc = "checked"]
       ELSE [after EXCEPT !.module = out.module,
                          !.pc = AfterCheckPass(r.pc)]

(* Lines 79-80 *)
StaticCheckEnd(r) ==
    [r EXCEPT !.checkResult = SuccessfulCheck(SuccessWarnings({})),
              !.module = MovedModule(r.module),
              !.pc = "checked"]

(* prepare(ast, pipelineLayouts) is entered. *)
StartPrepare(r, layouts) ==
    [r EXCEPT !.layouts = layouts, !.scope = "prepareImpl", !.events = <<>>,
              !.phaseTimes = <<>>, !.pc = PrepareSteps[1]]

(* One pass line of prepareImpl's lambda. *)
PrepareLine(r) ==
    LET m == AfterDump(r.options, r.module)
        after(failure) ==
            [r EXCEPT
               !.events = @ \o LineEvents(r.options, r.pc, failure),
               !.phaseTimes = Append(@, r.pc),
               !.pc = AfterPrepareStep(r.pc)]
    IN CASE r.pc = "buildCallGraph" ->
              LET b == buildCallGraph(m, r.layouts)
              IN [after({}) EXCEPT !.callGraph = b.callGraph,
                                   !.entryPoints = b.entryPoints,
                                   !.module = b.module]
         [] r.pc = "mangleNames" ->
              LET n == mangleNames(r.callGraph, r.entryPoints)
              IN [after({}) EXCEPT !.callGraph = n.callGraph,
                                   !.entryPoints = n.entryPoints,
                                   !.module = Rewrite(r.pc, m)]
         [] r.pc \in RunPasses \ {"mangleNames"} ->
              [after({}) EXCEPT !.callGraph = Transform(r.pc, r.callGraph),
                                !.module = Rewrite(r.pc, m)]
         [] r.pc = "rewriteGlobalVariables" ->
              LET g == rewriteGlobalVariables(r.callGraph, r.layouts, m)
              IN IF HasFailure(g.failure)
                 THEN [after(g.failure) EXCEPT
                         !.events = @ \o LogPhaseTimes(r.options),
                         !.phaseTimes = Append(@, "prepare total"),
                         !.prepareResult = PrepareError(g.failure),
                         !.callGraph = NoCallGraph,
                         !.entryPoints = NoEntryPoints,
                         !.scope = LocalScopeAtExit,
                         !.module = TearDown(g.module),
                         !.pc = "prepared"]
                 ELSE [after({}) EXCEPT !.callGraph = g.callGraph,
                                        !.module = g.module]

(* Lines 109-116: the end dump, the result, the log. *)
PrepareEnd(r) ==
    [r EXCEPT !.events = @ \o Dump(r.options, "end")
                           \o LogPhaseTimes(r.options),
              !.phaseTimes = Append(@, "prepare total"),
              !.module = AfterDump(r.options, r.module),
              !.prepareResult = PrepareResult(r.callGraph, r.entryPoints),
              !.callGraph = NoCallGraph,
              !.entryPoints = NoEntryPoints,
              !.scope = MovedScope,
              !.pc = "prepared"]

ConcurrentFrame ==
    UNCHANGED <<pipelineVars, evalVars, genVars, boundsVars, webVars>>

CallStaticCheck(c) ==
    /\ compilations[c].pc = "idle"
    /\ \E source \in CompiledSources, options \in Options :
         compilations' =
             [compilations EXCEPT ![c] = StartStaticCheck(source, options)]
    /\ ConcurrentFrame

RunCheckPassLine(c) ==
    /\ compilations[c].pc \in SeqToSet(CheckPasses)
    /\ compilations' =
           [compilations EXCEPT ![c] = CheckPassLine(OwnCompilation(compilations, c))]
    /\ ConcurrentFrame

ReturnStaticCheck(c) ==
    /\ compilations[c].pc = "staticCheck.return"
    /\ compilations' =
           [compilations EXCEPT ![c] = StaticCheckEnd(OwnCompilation(compilations, c))]
    /\ ConcurrentFrame

CallPrepare(c) ==
    /\ compilations[c].pc = "checked"
    /\ compilations[c].checkResult.kind = "SuccessfulCheck"
    /\ \E layouts \in CompiledLayouts :
         compilations' =
             [compilations EXCEPT
                ![c] = StartPrepare(OwnCompilation(compilations, c), layouts)]
    /\ ConcurrentFrame

RunPrepareLine(c) ==
    /\ compilations[c].pc \in SeqToSet(PrepareSteps)
    /\ compilations' =
           [compilations EXCEPT ![c] = PrepareLine(OwnCompilation(compilations, c))]
    /\ ConcurrentFrame

ReturnPrepare(c) ==
    /\ compilations[c].pc = "prepare.return"
    /\ compilations' =
           [compilations EXCEPT ![c] = PrepareEnd(OwnCompilation(compilations, c))]
    /\ ConcurrentFrame

(* One step of one caller's pipeline. *)
StepCompilation(c) ==
    \/ CallStaticCheck(c)
    \/ RunCheckPassLine(c)
    \/ ReturnStaticCheck(c)
    \/ CallPrepare(c)
    \/ RunPrepareLine(c)
    \/ ReturnPrepare(c)

----------------------------------------------------------------------------
(* ViewTransition (WebCore/dom/ViewTransition.cpp) *)

(* enum class ViewTransitionPhase, in the order of its enumerators. *)
Phases ==
    <<"PendingCapture", "CapturingOldState", "UpdateCallbackCalled",
      "Animating", "Done">>

PhaseIndex(p) == CHOOSE i \in DOMAIN Phases : Phases[i] = p

(* m_phase < other *)
PhaseBefore(p, q) == PhaseIndex(p) < PhaseIndex(q)

(* No ViewTransition object exists. *)
NoTransition == [phase |-> "None"]

(* The object after construction, set as the document's active view
   transition: the three promises are pending, nothing is queued. *)
NewTransition(updateCallback) ==
    [phase               |-> "PendingCapture",
     active              |-> TRUE,        \* document.activeViewTransition() == this
     updateCallback      |-> updateCallback,  \* m_updateCallback is not null
     tasks               |-> <<>>,        \* tasks queued on the event loop
     inCallback          |-> "none",      \* the task whose handleEvent() call is running
     callbackPromises    |-> <<>>,        \* callbackPromise of each callUpdateCallback
     reactions           |-> <<>>,        \* whenSettled callbacks not yet run
     ready               |-> "pending",
     updateCallbackDone  |-> "pending",
     finished            |-> "pending",
     hasActiveAnimations |-> FALSE,
     invocations         |-> 0,           \* calls of callUpdateCallback so far
     skippedIn           |-> "never"]     \* the phase skipViewTransition found

(* Settling a promise that is settled already changes nothing. *)
Settle(status, outcome) == IF status = "pending" THEN outcome ELSE status

(* m_updateCallbackDone.first->whenSettled(...) of skipViewTransition *)
FinishReaction == [on |-> "updateCallbackDone", k |-> 0, run |-> "finish"]

(* m_updateCallbackDone.first->whenSettled(...) of the task of
   setupViewTransition *)
ActivateOrSkipReaction ==
    [on |-> "updateCallbackDone", k |-> 0, run |-> "activateOrSkip"]

(* callbackPromise->whenSettled(...) of callUpdateCallback *)
CallbackReaction(k) == [on |-> "callbackPromise", k |-> k, run |-> "updateCallbackDone"]

(* The finished promise is settled by skipViewTransition itself. *)
skipViewTransitionFinishingAtOnce(t) ==
    [t EXCEPT !.active = FALSE,
              !.phase = "Done",
              !.ready = Settle(@, "rejected"),
              !.finished = Settle(@, "rejected"),
              !.skippedIn = t.phase]

(* skipViewTransition, lines 86-132. *)
skipViewTransition(t) ==
    [t EXCEPT !.tasks = IF PhaseBefore(t.phase, "UpdateCallbackCalled")
                        THEN Append(@, "skip")
                        ELSE @,
              !.active = FALSE,
              !.phase = "Done",
              !.ready = Settle(@, "rejected"),
              !.reactions = Append(@, FinishReaction),
              !.skippedIn = t.phase]

(* skipTransition, lines 135-139. *)
skipTransition(t) ==
    IF t.phase /= "Done" THEN skipViewTransition(t) ELSE t

(* callUpdateCallback from the return of handleEvent() on (lines 155-188),
   with a callbackPromise of the given status, and, in the task of
   setupViewTransition, the whenSettled call that follows (lines 216-233). *)
afterHandleEvent(t, status) ==
    LET k == Len(t.callbackPromises) + 1
        registered == IF t.inCallback = "setup"
                      THEN <<CallbackReaction(k), ActivateOrSkipReaction>>
                      ELSE <<CallbackReaction(k)>>
    IN [t EXCEPT !.phase = IF @ /= "Done" THEN "UpdateCallbackCalled" ELSE @,
                 !.callbackPromises = Append(@, status),
                 !.reactions = @ \o registered,
                 !.inCallback = "none"]

(* callUpdateCallback up to the call of handleEvent() (lines 142-154); with
   no update callback the promise is resolved at once and the function runs
   to its end. *)
callUpdateCallback(t, task) ==
    LET entered == [t EXCEPT !.invocations = @ + 1, !.inCallback = task]
    IN IF t.updateCallback
       THEN entered
       ELSE afterHandleEvent(entered, "fulfilled")

(* setupViewTransition, lines 192-237; captureOldState fails or not. *)
setupViewTransition(t, fails) ==
    LET capturing == [t EXCEPT !.phase = "CapturingOldState"]
    IN IF fails
       THEN skipViewTransition(capturing)
       ELSE [capturing EXCEPT !.tasks = Append(@, "setup")]

(* The two lambdas given to queueTask (lines 95-99 and 208-236). *)
runTask(t) ==
    LET rest == [t EXCEPT !.tasks = Tail(@)]
    IN IF Head(t.tasks) = "setup" /\ rest.phase = "Done"
       THEN rest
       ELSE callUpdateCallback(rest, Head(t.tasks))

(* The phase is not examined on entry. *)
activateViewTransitionUnguarded(t, fails, animated) ==
    IF fails
    THEN skipViewTransition(t)
    ELSE [t EXCEPT !.phase = "Animating",
                   !.ready = Settle(@, "fulfilled"),
                   !.hasActiveAnimations = animated]

(* activateViewTransition, lines 332-354; captureNewState fails or not, and
   the pseudo-elements set up have running animations or not. *)
activateViewTransition(t, fails, animated) ==
    IF t.phase = "Done"
    THEN t
    ELSE IF fails
    THEN skipViewTransition(t)
    ELSE [t EXCEPT !.phase = "Animating",
                   !.ready = Settle(@, "fulfilled"),
                   !.hasActiveAnimations = animated]

(* handleTransitionFrame, lines 357-385, with clearViewTransition. *)
handleTransitionFrame(t) ==
    IF ~t.hasActiveAnimations
    THEN [t EXCEPT !.phase = "Done",
                   !.active = FALSE,
                   !.finished = Settle(@, "fulfilled")]
    ELSE t

(* The status of the promise a whenSettled callback waits for. *)
PromiseStatus(t, r) ==
    IF r.on = "callbackPromise"
    THEN t.callbackPromises[r.k]
    ELSE t.updateCallbackDone

(* The callbacks of one promise run in the order of their registration,
   once the promise is settled. *)
Runnable(t, i) ==
    /\ PromiseStatus(t, t.reactions[i]) /= "pending"
    /\ \A j \in 1..(i - 1) :
          <<t.reactions[j].on, t.reactions[j].k>> /=
              <<t.reactions[i].on, t.reactions[i].k>>

RemoveAt(s, i) == SubSeq(s, 1, i - 1) \o SubSeq(s, i + 1, Len(s))

(* The three whenSettled callbacks (lines 171-188, 216-233, 117-131). *)
runReaction(t, i, fails, animated) ==
    LET r == t.reactions[i]
        rest == [t EXCEPT !.reactions = RemoveAt(@, i)]
    IN CASE r.run = "updateCallbackDone" ->
              [rest EXCEPT !.updateCallbackDone =
                               Settle(@, t.callbackPromises[r.k])]
         [] r.run = "activateOrSkip" ->
              IF t.updateCallbackDone = "fulfilled"
              THEN activateViewTransition(rest, fails, animated)
              ELSE IF t.phase = "Done"
              THEN rest
              ELSE skipViewTransition(rest)
         [] r.run = "finish" ->
              [rest EXCEPT !.finished = Settle(@, t.updateCallbackDone)]

VTFrame ==
    UNCHANGED <<pipelineVars, evalVars, genVars, concVars, boundsVars,
                historyVars, authVars>>

(* JavaScript is not running the update callback. *)
ScriptIdle == transition.inCallback = "none"

(* setupViewTransition is called on a transition that is pending capture
   (the ASSERT at line 197). *)
MaySetupViewTransition ==
    /\ transition.phase = "PendingCapture"
    /\ ScriptIdle

SetupViewTransition ==
    /\ MaySetupViewTransition
    /\ \E fails \in BOOLEAN :
          transition' = setupViewTransition(transition, fails)
    /\ VTFrame

(* Script calls skipTransition(): between tasks or from inside the update
   callback. *)
SkipTransition ==
    /\ transition.phase /= "None"
    /\ transition' = skipTransition(transition)
    /\ VTFrame

(* The event loop runs the oldest queued task; the whenSettled callbacks
   that can run have run by then. *)
RunTask ==
    /\ ScriptIdle
    /\ transition.tasks /= <<>>
    /\ \A i \in DOMAIN transition.reactions : ~Runnable(transition, i)
    /\ transition' = runTask(transition)
    /\ VTFrame

(* handleEvent() returns: a promise, or a failure in whose place
   callUpdateCallback makes a rejected promise. *)
HandleEventReturns ==
    /\ ~ScriptIdle
    /\ \E status \in {"pending", "rejected"} :
          transition' = afterHandleEvent(transition, status)
    /\ VTFrame

(* Script settles the promise the update callback returned. *)
SettleCallbackPromise ==
    /\ ScriptIdle
    /\ \E k \in DOMAIN transition.callbackPromises,
          outcome \in {"fulfilled", "rejected"} :
          /\ transition.callbackPromises[k] = "pending"
          /\ transition' =
                 [transition EXCEPT !.callbackPromises[k] = outcome]
    /\ VTFrame

RunReaction ==
    /\ ScriptIdle
    /\ \E i \in DOMAIN transition.reactions, fails, animated \in BOOLEAN :
          /\ Runnable(transition, i)
          /\ transition' = runReaction(transition, i, fails, animated)
    /\ VTFrame

(* The document calls handleTransitionFrame, in a rendering update, on its
   active transition while that is animating. *)
MayHandleTransitionFrame ==
    /\ transition.phase = "Animating"
    /\ transition.active
    /\ ScriptIdle

HandleTransitionFrame ==
    /\ MayHandleTransitionFrame
    /\ transition' = handleTransitionFrame(transition)
    /\ VTFrame

(* The animations of the pseudo-elements come to their end. *)
AnimationsEnd ==
    /\ transition.phase = "Animating"
    /\ transition.hasActiveAnimations
    /\ transition' = [transition EXCEPT !.hasActiveAnimations = FALSE]
    /\ VTFrame

----------------------------------------------------------------------------
(* History::stateObjectAdded (WebCore/page/History.cpp) *)

(* The History objects of one page: the one of the main frame's window, in
   which the usage of the page is kept, and the one of a subframe. *)
Histories == {"main", "sub"}

StateObjectTypes == {"Push", "Replace"}

(* static uint32_t totalStateObjectPayloadLimit = 0x4000000; *)
totalStateObjectPayloadLimit == 67108864

(* static Seconds stateObjectTimeSpan { 10_s }; *)
stateObjectTimeSpan == 10

(* static unsigned perStateObjectTimeSpanLimit = 100; *)
perStateObjectTimeSpanLimit == 100

(* The time since the start of the current time span, as far as line 257
   tells one value from another: less than the span, the span exactly, more
   than the span. *)
Elapsed == {0, stateObjectTimeSpan, stateObjectTimeSpan + 1}

(* payloadSize: twice the length of the URL plus the wire bytes of the
   state object; a quarter and three quarters of the limit. *)
PayloadSizes ==
    {totalStateObjectPayloadLimit \div 4,
     3 * (totalStateObjectPayloadLimit \div 4)}

(* Where the checks made before the accounting (lines 212-252) end. *)
Prechecks ==
    {"ok", "notFullyActive", "noPage", "invalidURL", "blockedURL",
     "noMainWindow"}

(* What a call did: where it ended (in the checks before the accounting, at
   the rate limit, at the quota, or at its last line), the exception it
   returned, the operation on the session history it performed and whether
   it notified the client. *)
NoCall ==
    [type |-> "none", ended |-> "none", exception |-> "none",
     performed |-> "none", notified |-> FALSE, underflow |-> FALSE]

NoHistory == [last |-> NoCall]

(* The History objects after construction; the wall clock is far beyond
   the default-constructed start of the time span. *)
NewHistory ==
    [elapsed   |-> stateObjectTimeSpan + 1, \* now - m_currentStateObjectTimeSpanStart
     added     |-> 0,                       \* m_currentStateObjectTimeSpanObjectsAdded
     total     |-> 0,                       \* m_totalStateObjectUsage
     recent    |-> [h \in Histories |-> 0], \* m_mostRecentStateObjectUsage
     last      |-> NoCall]                  \* what the last call did

(* Line 257: the time span has run out. *)
TimeSpanOver(elapsed) == elapsed > stateObjectTimeSpan

(* The limit is tested with > . *)
RateLimitedAbove(added) == added > perStateObjectTimeSpanLimit

(* Line 262. *)
RateLimited(added) == added >= perStateObjectTimeSpanLimit

(* The quota is not enforced. *)
OverQuotaNever(newTotalUsage) == FALSE

(* Line 280. *)
OverQuota(newTotalUsage) == newTotalUsage > totalStateObjectPayloadLimit

(* The payload of a refused call is recorded as the most recent usage. *)
RejectedRecordingUsage(s, h, payload, call, exception) ==
    [s EXCEPT !.recent[h] = payload,
              !.last = [call EXCEPT !.exception = exception]]

(* return { }: the call ends early without an exception. *)
ReturnedEarly(s, call) == [s EXCEPT !.last = call]

(* return Exception { ... }: the call ends without having stored, pushed,
   replaced or notified anything. *)
Rejected(s, h, payload, call, exception) ==
    [s EXCEPT !.last = [call EXCEPT !.exception = exception]]

(* Lines 286-301: the usage is stored, the state is pushed or replaced and
   the client is notified. *)
Accepted(s, h, payload, call, newTotalUsage) ==
    [s EXCEPT !.recent[h] = payload,
              !.total = newTotalUsage,
              !.added = @ + 1,
              !.last = [call EXCEPT !.ended = "return",
                                    !.performed = call.type,
                                    !.notified = TRUE]]

(* stateObjectAdded, lines 203-303, called on History h. *)
stateObjectAdded(s, h, type, payload, precheck) ==
    LET call == [NoCall EXCEPT !.type = type, !.ended = "checks"]
    IN  IF precheck \in {"notFullyActive", "invalidURL", "blockedURL"}
        THEN Rejected(s, h, payload, call, "SecurityError")
        ELSE IF precheck \in {"noPage", "noMainWindow"}
        THEN ReturnedEarly(s, call)
        ELSE
        LET timed == IF TimeSpanOver(s.elapsed)
                     THEN [s EXCEPT !.elapsed = 0, !.added = 0]
                     ELSE s
        IN  IF RateLimited(timed.added)
            THEN Rejected(timed, h, payload, [call EXCEPT !.ended = "rate"],
                          "SecurityError")
            ELSE IF type = "Replace" /\ timed.recent[h] > timed.total
            THEN [timed EXCEPT
                     !.last = [call EXCEPT !.ended = "quota",
                                           !.underflow = TRUE]]
            ELSE
            LET newTotalUsage ==
                    (IF type = "Replace"
                     THEN timed.total - timed.recent[h]
                     ELSE timed.total) + payload
            IN  IF OverQuota(newTotalUsage)
                THEN Rejected(timed, h, payload,
                              [call EXCEPT !.ended = "quota"],
                              "QuotaExceededError")
                ELSE Accepted(timed, h, payload, call, newTotalUsage)

HistoryFrame ==
    UNCHANGED <<pipelineVars, evalVars, genVars, concVars, boundsVars, vtVars,
                authVars>>

(* pushState or replaceState is called on one of the History objects; a
   Checked subtraction that underflowed has ended the process. *)
StateObjectAdded ==
    /\ ~history.last.underflow
    /\ \E h \in Histories, type \in StateObjectTypes,
          payload \in PayloadSizes, precheck \in Prechecks :
          history' = stateObjectAdded(history, h, type, payload, precheck)
    /\ HistoryFrame

(* Time passes on the wall clock. *)
TimePasses ==
    /\ \E later \in Elapsed :
          /\ later > history.elapsed
          /\ history' = [history EXCEPT !.elapsed = later]
    /\ HistoryFrame

----------------------------------------------------------------------------
(* WebAuthenticatorCoordinatorProxy::handleRequest
   (WebKit/UIProcess/WebAuthentication/WebAuthenticatorCoordinatorProxy.cpp),
   in a build without HAVE(UNIFIED_ASC_AUTH_UI) *)

(* The requests a web process sends to the proxy. *)
Requests == {"r1", "r2"}

(* No request has been received under this name. *)
NoRequest ==
    [pc |-> "none", type |-> "none", conditional |-> FALSE,
     parentOrigin |-> FALSE, handlerCalls |-> 0, outcome |-> "none"]

NoAuthenticator == [alive |-> FALSE]

(* The proxy after construction, with an authenticator manager that is a
   mock or virtual one, or neither. *)
NewAuthenticator(mockOrVirtual) ==
    [alive |-> TRUE,
     mockOrVirtual |-> mockOrVirtual,
     requests |-> [r \in Requests |-> NoRequest]]

(* handler(...): the RequestCompletionHandler of the request is invoked. *)
InvokeHandler(request, outcome) ==
    [request EXCEPT !.pc = "done",
                    !.handlerCalls = @ + 1,
                    !.outcome = outcome]

(* return; at line 86: the lambda, and the handler it holds, are destroyed
   without the handler having been invoked. *)
DropHandler(request) == [request EXCEPT !.pc = "dropped"]

(* The afterConsent lambda, lines 84-134. *)
afterConsent(a, request, result) ==
    IF ~a.alive
    THEN DropHandler(request)
    ELSE IF ~result
    THEN InvokeHandler(request, "NotAllowedError: cancelled by the user")
    ELSE IF request.parentOrigin /\ ~a.mockOrVirtual
    THEN InvokeHandler(request, "NotAllowedError: origin differs from ancestors")
    ELSE [request EXCEPT !.pc = "authenticatorManager.handleRequest"]

(* handleRequest, lines 74-142. *)
handleRequest(a, request) ==
    IF request.type = "makeCredential" /\ request.conditional
    THEN [request EXCEPT !.pc = "requestConditionalMediationRegistration"]
    ELSE afterConsent(a, request, TRUE)

AuthFrame ==
    UNCHANGED <<pipelineVars, evalVars, genVars, concVars, boundsVars, vtVars,
                historyVars>>

(* makeCredential, lines 64-67: no parent origin is passed on. *)
MakeCredential(r) ==
    /\ authenticator.alive
    /\ authenticator.requests[r].pc = "none"
    /\ \E conditional \in BOOLEAN :
          authenticator' =
              [authenticator EXCEPT !.requests[r] =
                  handleRequest(authenticator,
                                [NoRequest EXCEPT !.type = "makeCredential",
                                                  !.conditional = conditional])]
    /\ AuthFrame

(* getAssertion, lines 69-72. *)
GetAssertion(r) ==
    /\ authenticator.alive
    /\ authenticator.requests[r].pc = "none"
    /\ \E conditional, parentOrigin \in BOOLEAN :
          authenticator' =
              [authenticator EXCEPT !.requests[r] =
                  handleRequest(authenticator,
                                [NoRequest EXCEPT !.type = "getAssertion",
                                                  !.conditional = conditional,
                                                  !.parentOrigin = parentOrigin])]
    /\ AuthFrame

(* The UI client answers the request for consent: it calls afterConsent. *)
ConsentAnswered(r) ==
    /\ authenticator.requests[r].pc = "requestConditionalMediationRegistration"
    /\ \E result \in BOOLEAN :
          authenticator' =
              [authenticator EXCEPT !.requests[r] =
                  afterConsent(authenticator, authenticator.requests[r], result)]
    /\ AuthFrame

(* The authenticator manager calls the callback given to handleRequest
   (lines 120-129) with a response or with an exception. *)
AuthenticatorResponds(r) ==
    /\ authenticator.requests[r].pc = "authenticatorManager.handleRequest"
    /\ \E outcome \in {"AuthenticatorResponse", "ExceptionData"} :
          authenticator' =
              [authenticator EXCEPT !.requests[r] =
                  InvokeHandler(authenticator.requests[r], outcome)]
    /\ AuthFrame

(* ~WebAuthenticatorCoordinatorProxy, lines 56-62. *)
DestroyProxy ==
    /\ authenticator.alive
    /\ authenticator' = [authenticator EXCEPT !.alive = FALSE]
    /\ AuthFrame

----------------------------------------------------------------------------

(* No object of the WebCore and WebKit classes exists. *)
WebInit ==
    /\ transition = NoTransition
    /\ history = NoHistory
    /\ authenticator = NoAuthenticator

Init ==
    /\ PipelineInit
    /\ expression = NoExpression
    /\ evalLog = <<>>
    /\ genLog = <<>>
    /\ compilations = [c \in Compilations |-> IdleCompilation]
    /\ accesses = NoAccesses
    /\ boundsChecked = FALSE
    /\ WebInit

Next ==
    \/ StaticCheckCall
    \/ StaticCheckPass
    \/ StaticCheckReturn
    \/ PrepareCall
    \/ PrepareCallSingle
    \/ PrepareBuildCallGraph
    \/ PrepareRunPass
    \/ PrepareCheckPass
    \/ PrepareReturn
    \/ ReleasePrepareResult
    \/ ReleaseCheckResult

Spec == Init /\ [][Next]_vars

(* evaluate applied to a node, from every node and constants map. *)
InitEvaluate ==
    /\ PipelineInit
    /\ expression \in Expressions
    /\ evalLog = <<>>
    /\ genLog = <<>>
    /\ compilations = [c \in Compilations |-> IdleCompilation]
    /\ accesses = NoAccesses
    /\ boundsChecked = FALSE
    /\ WebInit

NextEvaluate == Evaluate

SpecEvaluate == InitEvaluate /\ [][NextEvaluate]_vars

(* generate applied to call graphs and constant maps. *)
NextGenerate == Generate

SpecGenerate == Init /\ [][NextGenerate]_vars

(* insertBoundsChecks applied to the accesses of a checked module, in one
   prepare call after another. *)
InitBoundsChecks ==
    /\ PipelineInit
    /\ expression = NoExpression
    /\ evalLog = <<>>
    /\ genLog = <<>>
    /\ compilations = [c \in Compilations |-> IdleCompilation]
    /\ accesses \in [AccessSites -> IndexedAccesses]
    /\ boundsChecked = FALSE
    /\ WebInit

NextBoundsChecks ==
    \/ InsertBoundsChecks
    \/ EndBoundsCheckedScope

SpecBoundsChecks == InitBoundsChecks /\ [][NextBoundsChecks]_vars

(* The pipelines of the callers, interleaved step by step. *)
NextConcurrent == \E c \in Compilations : StepCompilation(c)

SpecConcurrent == Init /\ [][NextConcurrent]_vars

(* The pipeline of one caller, which runs on as long as it has a step: the
   calls are synchronous and every pass returns. *)
NextCompilation == StepCompilation("c1")

FairCompilation ==
    Init /\ [][NextCompilation]_vars /\ WF_vars(NextCompilation)

(* One ViewTransition, with or without an update callback. *)
InitViewTransition ==
    /\ PipelineInit
    /\ expression = NoExpression
    /\ evalLog = <<>>
    /\ genLog = <<>>
    /\ compilations = [c \in Compilations |-> IdleCompilation]
    /\ accesses = NoAccesses
    /\ boundsChecked = FALSE
    /\ \E updateCallback \in BOOLEAN :
          transition = NewTransition(updateCallback)
    /\ history = NoHistory
    /\ authenticator = NoAuthenticator

NextViewTransition ==
    \/ SetupViewTransition
    \/ SkipTransition
    \/ RunTask
    \/ HandleEventReturns
    \/ SettleCallbackPromise
    \/ RunReaction
    \/ HandleTransitionFrame
    \/ AnimationsEnd

SpecViewTransition == InitViewTransition /\ [][NextViewTransition]_vars

(* The event loop runs every queued task and every whenSettled callback
   that can run, a handleEvent() call returns, and the document delivers
   transition frames; the animations end. *)
FairViewTransition ==
    /\ SpecViewTransition
    /\ WF_vars(RunTask)
    /\ WF_vars(HandleEventReturns)
    /\ WF_vars(RunReaction)
    /\ WF_vars(HandleTransitionFrame)
    /\ WF_vars(AnimationsEnd)

(* The History objects of one page. *)
InitHistory ==
    /\ PipelineInit
    /\ expression = NoExpression
    /\ evalLog = <<>>
    /\ genLog = <<>>
    /\ compilations = [c \in Compilations |-> IdleCompilation]
    /\ accesses = NoAccesses
    /\ boundsChecked = FALSE
    /\ transition = NoTransition
    /\ history = NewHistory
    /\ authenticator = NoAuthenticator

NextHistory ==
    \/ StateObjectAdded
    \/ TimePasses

SpecHistory == InitHistory /\ [][NextHistory]_vars

(* One proxy, receiving requests. *)
InitAuthenticator ==
    /\ PipelineInit
    /\ expression = NoExpression
    /\ evalLog = <<>>
    /\ genLog = <<>>
    /\ compilations = [c \in Compilations |-> IdleCompilation]
    /\ accesses = NoAccesses
    /\ boundsChecked = FALSE
    /\ transition = NoTransition
    /\ history = NoHistory
    /\ \E mockOrVirtual \in BOOLEAN :
          authenticator = NewAuthenticator(mockOrVirtual)

NextAuthenticator ==
    \/ \E r \in Requests :
          \/ MakeCredential(r)
          \/ GetAssertion(r)
          \/ ConsentAnswered(r)
          \/ AuthenticatorResponds(r)
    \/ DestroyProxy

SpecAuthenticator == InitAuthenticator /\ [][NextAuthenticator]_vars

----------------------------------------------------------------------------
(* Properties *)

(* The passes entered so far by the current pipeline call, in order. *)
PassesCalled ==
    LET c == SelectSeq(trace, LAMBDA e : e.ev = "call")
    IN [i \in DOMAIN c |-> c[i].pass]

(* The trace is that of a staticCheck call / of a prepare call. *)
IsCheckTrace == trace /= <<>> /\ trace[1].pass = "parse"
IsPrepareTrace == trace /= <<>> /\ trace[1].pass = "buildCallGraph"

IsPrefixOf(s, t) == Len(s) <= Len(t) /\ \A i \in DOMAIN s : s[i] = t[i]

(* Number of passes entered and not yet returned after the first k events. *)
ActiveAfter(k) ==
    Cardinality({i \in 1..k : trace[i].ev = "call"})
        - Cardinality({i \in 1..k : trace[i].ev = "return"})

(* Every pass entered before event k has returned, and without a failure. *)
EarlierPassesReturnedClean(k) ==
    \A j \in 1..(k - 1) :
        /\ trace[j].ev = "call" =>
             \E l \in (j + 1)..(k - 1) :
                 trace[l].ev = "return" /\ trace[l].pass = trace[j].pass
        /\ trace[j].ev = "return" => trace[j].failure = {}

ReturnedClean(pass) ==
    \E k \in DOMAIN trace :
        trace[k] = [ev |-> "return", pass |-> pass, failure |-> {}]

(* C1: staticCheck invokes parse, reorderGlobals, typeCheck,
   validateAttributes in that order, none twice; a pass is entered only
   after every earlier pass returned without a failure, and at most one
   pass is active at any time. *)
C1_StaticCheckPassOrder ==
    IsCheckTrace =>
        /\ IsPrefixOf(PassesCalled,
                      <<"parse", "reorderGlobals", "typeCheck", "validateAttributes">>)
        /\ \A k \in DOMAIN trace : ActiveAfter(k) \in {0, 1}
        /\ \A k \in DOMAIN trace :
               trace[k].ev = "call" => EarlierPassesReturnedClean(k)

C1_Witness ==
    /\ pc = "checked"
    /\ checkResult.kind = "SuccessfulCheck"
    /\ PassesCalled = <<"parse", "reorderGlobals", "typeCheck", "validateAttributes">>

(* C2: when a pass of staticCheck returns a failure, staticCheck returns at
   once a FailedCheck carrying exactly the diagnostics that pass returned;
   no later pass is invoked. *)
C2_FailFast ==
    IsCheckTrace =>
        \A k \in DOMAIN trace :
            (trace[k].ev = "return" /\ trace[k].failure /= {}) =>
                /\ k = Len(trace)
                /\ pc = "checked"
                /\ checkResult = [kind |-> "FailedCheck", errors |-> trace[k].failure]

C2_Witness ==
    /\ pc = "checked"
    /\ checkResult.kind = "FailedCheck"
    /\ Cardinality(checkResult.errors) = 2
    /\ PassesCalled = <<"parse", "reorderGlobals", "typeCheck">>

(* Some global depends on itself through one or more dependencies. *)
CyclicDeps(deps) ==
    \E n \in 1..Cardinality(Globals) :
        \E p \in [1..n -> Globals] :
            /\ \A i \in 1..(n - 1) : <<p[i], p[i + 1]>> \in deps
            /\ <<p[n], p[1]>> \in deps

(* C3: for a source that parses and whose globals have a dependency cycle,
   staticCheck fails at reorderGlobals: the result is a FailedCheck, and
   typeCheck and validateAttributes are never invoked. *)
C3_CycleFailsAtReorder ==
    (IsCheckTrace /\ wgsl.syntaxErrors = 0 /\ CyclicDeps(wgsl.deps)) =>
        /\ \A k \in DOMAIN trace :
               trace[k].pass \notin {"typeCheck", "validateAttributes"}
        /\ pc \notin {"typeCheck", "validateAttributes", "staticCheck.return"}
        /\ Len(trace) >= 4 =>
               /\ trace[4].ev = "return"
               /\ trace[4].pass = "reorderGlobals"
               /\ trace[4].failure /= {}
               /\ checkResult = [kind |-> "FailedCheck", errors |-> trace[4].failure]
        /\ pc = "checked" => checkResult.kind = "FailedCheck"

C3_Witness ==
    /\ pc = "checked"
    /\ IsCheckTrace
    /\ wgsl.syntaxErrors = 0
    /\ wgsl.deps = {<<"a", "b">>, <<"b", "a">>}
    /\ checkResult.kind = "FailedCheck"

(* C4: when typeCheck returns a failure (parse and reorderGlobals having
   succeeded), staticCheck returns a FailedCheck with the type errors,
   validateAttributes is never invoked, and no attribute or prepare-stage
   diagnostic is produced. *)
C4_TypeErrorStops ==
    \A k \in DOMAIN trace :
        (trace[k].ev = "return" /\ trace[k].pass = "typeCheck"
            /\ trace[k].failure /= {}) =>
            /\ ReturnedClean("parse") /\ ReturnedClean("reorderGlobals")
            /\ pc = "checked"
            /\ checkResult = [kind |-> "FailedCheck", errors |-> trace[k].failure]
            /\ \A d \in checkResult.errors : d[1] = "typeCheck"
            /\ \A j \in DOMAIN trace :
                   trace[j].pass \in {"parse", "reorderGlobals", "typeCheck"}
            /\ prepareResult = NoResult
            /\ callGraph = NoCallGraph

C4_Witness ==
    /\ pc = "checked"
    /\ checkResult.kind = "FailedCheck"
    /\ \E d \in checkResult.errors : d[1] = "typeCheck"

(* C5: staticCheck returns SuccessfulCheck exactly when all four passes
   returned no failure, and the SuccessfulCheck then owns the very
   ShaderModule the four passes operated on. *)
C5_SuccessIffAllPassesClean ==
    (pc = "checked" /\ IsCheckTrace) =>
        /\ checkResult.kind \in {"SuccessfulCheck", "FailedCheck"}
        /\ checkResult.kind = "SuccessfulCheck" <=>
               \A p \in {"parse", "reorderGlobals", "typeCheck", "validateAttributes"} :
                   ReturnedClean(p)
        /\ checkResult.kind = "SuccessfulCheck" =>
               /\ owner = "SuccessfulCheck"
               /\ shaderModule.kind = "ShaderModule"
               /\ shaderModule.source = wgsl
               /\ shaderModule.applied =
                      <<"parse", "reorderGlobals", "typeCheck", "validateAttributes">>

C5_Witness ==
    /\ pc = "checked"
    /\ IsCheckTrace
    /\ checkResult.kind = "SuccessfulCheck"
    /\ owner = "SuccessfulCheck"

(* C6: a failed staticCheck hands the caller the diagnostic list only: no
   ShaderModule is returned or stays alive, whichever pass failed; the
   result is exactly one of SuccessfulCheck and FailedCheck. *)
C6_FailureReturnsOnlyDiagnostics ==
    /\ pc = "checked" => checkResult.kind \in {"SuccessfulCheck", "FailedCheck"}
    /\ checkResult.kind = "FailedCheck" =>
           /\ DOMAIN checkResult = {"kind", "errors"}
           /\ checkResult.errors /= {}
           /\ shaderModule = NoModule
           /\ owner = "none"
    /\ checkResult.kind = "SuccessfulCheck" =>
           /\ DOMAIN checkResult = {"kind", "warnings"}
           /\ shaderModule.kind = "ShaderModule"
           /\ owner = "SuccessfulCheck"

C6_Witness ==
    /\ pc = "checked"
    /\ checkResult.kind = "FailedCheck"
    /\ \E d \in checkResult.errors : d[1] = "validateAttributes"
    /\ shaderModule = NoModule

(* C7: on success the warnings of the SuccessfulCheck contain every
   non-fatal warning the passes that ran produced. *)
C7_WarningsAccumulated ==
    (pc = "checked" /\ IsCheckTrace /\ checkResult.kind = "SuccessfulCheck") =>
        produced \subseteq checkResult.warnings

(* C8: prepare invokes buildCallGraph, mangleNames, rewritePointers,
   insertBoundsChecks, rewriteEntryPoints, rewriteGlobalVariables in that
   order, each once and each only after the previous one returned. *)
C8_PreparePassOrder ==
    IsPrepareTrace =>
        /\ IsPrefixOf(PassesCalled,
                      <<"buildCallGraph", "mangleNames", "rewritePointers",
                        "insertBoundsChecks", "rewriteEntryPoints",
                        "rewriteGlobalVariables">>)
        /\ \A k \in DOMAIN trace : ActiveAfter(k) \in {0, 1}
        /\ \A k \in DOMAIN trace :
               trace[k].ev = "call" =>
                   \A j \in 1..(k - 1) :
                       trace[j].ev = "call" =>
                           \E l \in (j + 1)..(k - 1) :
                               trace[l].ev = "return" /\ trace[l].pass = trace[j].pass
        /\ pc = "checked" => Len(PassesCalled) = 6

C8_Witness ==
    /\ pc = "checked"
    /\ prepareResult.kind = "PrepareResult"
    /\ Len(PassesCalled) = 6

(* C9: prepare returns an Error exactly when rewriteGlobalVariables returns
   a failure, and the Error is the one it returned; the five earlier steps
   always run to completion and report nothing. *)
C9_OnlyRewriteGlobalVariablesFails ==
    (pc = "checked" /\ prepareResult /= NoResult) =>
        /\ Len(trace) = 12
        /\ \A k \in 1..10 : trace[k].failure = {}
        /\ \A p \in {"buildCallGraph", "mangleNames", "rewritePointers",
                     "insertBoundsChecks", "rewriteEntryPoints"} : ReturnedClean(p)
        /\ trace[12].ev = "return"
        /\ trace[12].pass = "rewriteGlobalVariables"
        /\ prepareResult.kind \in {"PrepareResult", "Error"}
        /\ prepareResult.kind = "Error" <=> trace[12].failure /= {}
        /\ prepareResult.kind = "Error" =>
               prepareResult = [kind |-> "Error", error |-> trace[12].failure]

C9_Witness ==
    /\ pc = "checked"
    /\ prepareResult.kind = "Error"
    /\ Len(trace) = 12

(* The functions reached from f along calls, and the resources they use. *)
CallPath(src, f, g) ==
    \/ f = g
    \/ \E n \in 2..Cardinality(Functions) :
           \E p \in [1..n -> Functions] :
               /\ p[1] = f
               /\ p[n] = g
               /\ \A i \in 1..(n - 1) : <<p[i], p[i + 1]>> \in src.calls

StaticallyReachableResources(src, e) ==
    {b \in Bindings : \E g \in Functions : CallPath(src, e, g) /\ src.uses[g] = b}

(* The bindings that requested entry points need and their supplied layouts omit. *)
OmittedBindings ==
    {x \in (DOMAIN pipelineLayouts \cap EntryPointNames) \X Bindings :
        /\ pipelineLayouts[x[1]].present
        /\ x[2] \in StaticallyReachableResources(shaderModule.source, x[1])
        /\ x[2] \notin pipelineLayouts[x[1]].bindings}

(* C10: when a supplied layout omits a binding that a requested entry point's
   resources need, prepare returns a layout-binding Error and no
   PrepareResult; otherwise it succeeds and each requested entry point's
   EntryPointInformation lists exactly the resources statically reachable
   from it. *)
C10_LayoutBinding ==
    (pc = "checked" /\ prepareResult /= NoResult) =>
        /\ OmittedBindings /= {} =>
               prepareResult = [kind |-> "Error", error |-> OmittedBindings]
        /\ OmittedBindings = {} =>
               /\ prepareResult.kind = "PrepareResult"
               /\ DOMAIN prepareResult.entryPoints =
                      DOMAIN pipelineLayouts \cap EntryPointNames
               /\ \A e \in DOMAIN pipelineLayouts \cap EntryPointNames :
                      prepareResult.entryPoints[e].resources =
                          StaticallyReachableResources(shaderModule.source, e)

C10_Witness ==
    /\ pc = "checked"
    /\ prepareResult = [kind |-> "Error", error |-> {<<"main", "b1">>}]
    /\ pipelineLayouts["main"].bindings = {"b0"}
    /\ shaderModule.source.uses["helper"] = "b1"

(* What the six steps of prepare, composed, yield for a checked module and a
   layout map. *)
PrepareOutcome(m, layouts) ==
    LET b == buildCallGraph(m, layouts)
        n == mangleNames(b.callGraph, b.entryPoints)
        cg == Transform("rewriteEntryPoints",
                Transform("insertBoundsChecks",
                  Transform("rewritePointers", n.callGraph)))
        r == rewriteGlobalVariables(cg, layouts, m)
    IN IF r.failure /= {}
       THEN [kind |-> "Error", error |-> r.failure]
       ELSE [kind |-> "PrepareResult", callGraph |-> r.callGraph,
             entryPoints |-> n.entryPoints]

(* The module as staticCheck handed it over. *)
AsChecked(m) == [m EXCEPT !.rewritten = <<>>]

(* C11: prepare(module, n, l) runs prepareImpl on the map with the single
   entry n -> l: the same steps run, on that map, and the value returned is
   the one the general form returns for that map, which is what the steps
   yield for the module and the map. *)
C11_OverloadEquivalence ==
    /\ prepareArgs.form = "single" =>
           /\ DOMAIN pipelineLayouts = {prepareArgs.name}
           /\ pipelineLayouts[prepareArgs.name] = prepareArgs.layout
           /\ IsPrefixOf(PassesCalled, PrepareSteps)
    /\ (prepareArgs.form \in {"single", "map"} /\ prepareResult /= NoResult) =>
           prepareResult = PrepareOutcome(AsChecked(shaderModule), pipelineLayouts)

C11_Witness ==
    /\ prepareArgs.form = "single"
    /\ prepareArgs.layout.present
    /\ prepareResult.kind = "PrepareResult"
    /\ prepareArgs.name \in DOMAIN prepareResult.entryPoints

(* prepare has returned a value the caller still holds. *)
PrepareReturned == pc = "checked" /\ prepareResult /= NoResult

(* The CompilationScope of the latest prepare call still exists. *)
ScopeLive == compilationScope \in {"prepareImpl", "PrepareResult"}

(* C12 as stated: the CompilationScope is torn down by the time prepare
   returns, on the success and on the failure path alike. *)
C12_TornDownOnReturn ==
    PrepareReturned =>
        /\ ~ScopeLive
        /\ shaderModule.rewritten = <<>>

(* C12, amended: on the failure path the CompilationScope is torn down by
   the time prepare returns the Error; on the success path it is moved into
   the PrepareResult and torn down when that result is destroyed; no scope
   is live, and no rewrite made under one remains, unless a prepare call is
   running or a PrepareResult is held. *)
C12_ScopeTornDown ==
    /\ (PrepareReturned /\ prepareResult.kind = "Error") =>
           /\ compilationScope = "destroyed"
           /\ shaderModule.rewritten = <<>>
    /\ (PrepareReturned /\ prepareResult.kind = "PrepareResult") =>
           compilationScope = "PrepareResult"
    /\ (pc = "checked" /\ prepareResult = NoResult) =>
           ~ScopeLive
    /\ (shaderModule /= NoModule /\ ~ScopeLive) =>
           shaderModule.rewritten = <<>>

C12_Witness ==
    /\ PrepareReturned
    /\ prepareResult.kind = "Error"
    /\ compilationScope = "destroyed"
    /\ ReturnedClean("rewriteEntryPoints")

(* The module a successful staticCheck of the source yields. *)
CheckedModule(src) ==
    LET p == parse(makeModule(src)).module
        g == reorderGlobals(p).module
        t == typeCheck(g).module
    IN validateAttributes(t).module

(* C13 as stated: after a successful staticCheck nothing, and no step of
   prepare in particular, changes the ShaderModule's AST state. *)
C13_ASTImmutable ==
    checkResult.kind = "SuccessfulCheck" => shaderModule = CheckedModule(wgsl)

(* C13, amended: the steps of prepare rewrite the checked module in place,
   under the CompilationScope of the call; what staticCheck established
   (the source, the order of the globals, the passes applied) is never
   changed, and whenever no CompilationScope is live the module is exactly
   the module staticCheck returned. *)
C13_CheckedASTPreserved ==
    checkResult.kind = "SuccessfulCheck" =>
        /\ AsChecked(shaderModule) = CheckedModule(wgsl)
        /\ ScopeLive => IsPrefixOf(shaderModule.rewritten,
                  <<"buildCallGraph", "mangleNames", "rewritePointers",
                    "insertBoundsChecks", "rewriteEntryPoints",
                    "rewriteGlobalVariables">>)
        /\ ~ScopeLive => shaderModule = CheckedModule(wgsl)

C13_Witness ==
    /\ checkResult.kind = "SuccessfulCheck"
    /\ prepareResult = NoResult
    /\ compilationScope = "destroyed"
    /\ Len(trace) = 12
    /\ trace[12].failure = {}
    /\ shaderModule = CheckedModule(wgsl)

(* C14: every prepare call on a checked module, the first and any later one
   made once the previous result is released, starts from the module as
   staticCheck returned it, and what it returns is what the steps yield for
   that module and the layouts of this call, whatever earlier calls did. *)
C14_ReusableModule ==
    checkResult.kind = "SuccessfulCheck" =>
        /\ pc = "buildCallGraph" => shaderModule = CheckedModule(wgsl)
        /\ PrepareReturned =>
               prepareResult = PrepareOutcome(CheckedModule(wgsl), pipelineLayouts)

C14_Witness ==
    /\ prepareCalls = 2
    /\ PrepareReturned
    /\ prepareResult.kind = "PrepareResult"
    /\ prepareResult.callGraph.entrypoints = {"main", "frag"}

(* A prepare call is past its buildCallGraph line. *)
CallGraphBuilt ==
    pc \in {"mangleNames", "rewritePointers", "insertBoundsChecks",
            "rewriteEntryPoints", "rewriteGlobalVariables", "prepare.return"}

(* C15: each prepare call starts with no call graph and an empty
   entry-point map, obtains both from its own buildCallGraph, run on the
   module and this call's layouts, and moves them into the PrepareResult,
   which alone holds them once prepare has returned. *)
C15_CallGraphFresh ==
    /\ pc = "buildCallGraph" =>
           /\ callGraph = NoCallGraph
           /\ entryPoints = NoEntryPoints
    /\ CallGraphBuilt =>
           /\ trace[1] = [ev |-> "call", pass |-> "buildCallGraph", failure |-> {}]
           /\ callGraph.entrypoints = DOMAIN pipelineLayouts \cap EntryPointNames
           /\ callGraph.functions =
                  buildCallGraph(CheckedModule(wgsl), pipelineLayouts).callGraph.functions
           /\ DOMAIN entryPoints = callGraph.entrypoints
    /\ PrepareReturned =>
           /\ callGraph = NoCallGraph
           /\ entryPoints = NoEntryPoints
           /\ prepareResult.kind = "PrepareResult" =>
                  /\ prepareResult.callGraph.kind = "CallGraph"
                  /\ prepareResult.callGraph.steps = PrepareSteps
                  /\ prepareResult.callGraph.entrypoints =
                         DOMAIN pipelineLayouts \cap EntryPointNames
                  /\ DOMAIN prepareResult.entryPoints =
                         prepareResult.callGraph.entrypoints

C15_Witness ==
    /\ prepareCalls = 2
    /\ PrepareReturned
    /\ prepareResult.kind = "PrepareResult"
    /\ prepareResult.callGraph.entrypoints = {"frag"}
    /\ callGraph = NoCallGraph

(* The entry points a prepare call has processed so far: those in its call
   graph, in its entry-point map, or named by the Error it returned. *)
ProcessedEntryPoints ==
    (IF CallGraphBuilt THEN callGraph.entrypoints \cup DOMAIN entryPoints ELSE {})
      \cup (IF prepareResult.kind = "PrepareResult"
            THEN prepareResult.callGraph.entrypoints
                   \cup DOMAIN prepareResult.entryPoints
            ELSE {})
      \cup (IF prepareResult.kind = "Error"
            THEN {x[1] : x \in prepareResult.error}
            ELSE {})

(* The keys of the map the caller asked for. *)
RequestedKeys ==
    CASE prepareArgs.form = "single" -> {prepareArgs.name}
      [] prepareArgs.form = "map" -> DOMAIN pipelineLayouts
      [] OTHER -> {}

(* C16: the entry points prepare processes, and the keys of the entry-point
   map it returns, are among the keys of the layout map passed in (the one
   name, for the overload); the call graph holds only functions reached
   from those entry points. *)
C16_SelectiveSpecialization ==
    /\ ProcessedEntryPoints \subseteq RequestedKeys
    /\ prepareResult.kind = "PrepareResult" =>
           /\ DOMAIN prepareResult.entryPoints \subseteq RequestedKeys
           /\ \A f \in prepareResult.callGraph.functions :
                  \E e \in RequestedKeys \cap EntryPointNames :
                      CallPath(shaderModule.source, e, f)

C16_Witness ==
    /\ prepareArgs.form = "single"
    /\ prepareArgs.name = "main"
    /\ prepareResult.kind = "PrepareResult"
    /\ DOMAIN prepareResult.entryPoints = {"main"}
    /\ shaderModule.source.uses["frag"] = "b0"
    /\ prepareArgs.layout = [present |-> TRUE, bindings |-> {}]

----------------------------------------------------------------------------
(* Properties of evaluate, under SpecEvaluate *)

Cached(node) == node.constantValue /= NoConstantValue

(* C17: on a node that carries a cached constant value, evaluate returns
   that value, looks nothing up and leaves the node as it is; of two
   successive calls on a node the second returns the value the first
   returned and looks nothing up, whatever maps are passed. *)
C17_Memoized ==
    /\ \A i \in DOMAIN evalLog :
           Cached(evalLog[i].before) =>
               /\ evalLog[i].outcome = "return"
               /\ evalLog[i].value = evalLog[i].before.constantValue
               /\ ~evalLog[i].lookup
               /\ evalLog[i].after = evalLog[i].before
    /\ \A i \in DOMAIN evalLog :
           (i > 1 /\ evalLog[i - 1].outcome = "return") =>
               /\ evalLog[i].outcome = "return"
               /\ evalLog[i].value = evalLog[i - 1].value
               /\ ~evalLog[i].lookup

C17_Witness ==
    /\ Len(evalLog) = 2
    /\ evalLog[1].lookup
    /\ evalLog[1].value = "v1"
    /\ evalLog[2].value = "v1"
    /\ ~evalLog[2].lookup

(* C18: on an identifier expression without a cached value, evaluate
   looks the identifier up in the constants map, returns the value the map
   holds for it and leaves the node with the returned value cached and
   otherwise unchanged; nothing of the pipeline changes. *)
C18_LookupAndCache ==
    /\ \A i \in DOMAIN evalLog :
           (~Cached(evalLog[i].before)
              /\ evalLog[i].before.kind = "IdentifierExpression") =>
               LET id == evalLog[i].before.identifier
               IN /\ evalLog[i].outcome = "return"
                  /\ evalLog[i].lookup
                  /\ id \in DOMAIN evalLog[i].constants =>
                         evalLog[i].value = evalLog[i].constants[id]
                  /\ evalLog[i].after =
                         [evalLog[i].before EXCEPT
                            !.constantValue = evalLog[i].value]
    /\ evalLog /= <<>> => expression = evalLog[Len(evalLog)].after
    /\ pc = "idle" /\ shaderModule = NoModule /\ genLog = <<>>

C18_Witness ==
    /\ Len(evalLog) = 1
    /\ evalLog[1].before =
           [kind |-> "IdentifierExpression", identifier |-> "x",
            constantValue |-> NoConstantValue]
    /\ evalLog[1].constants = [k \in {"x", "y"} |-> IF k = "x" THEN "v2" ELSE "v1"]
    /\ evalLog[1].value = "v2"
    /\ expression.constantValue = "v2"

(* C19: on an expression that carries no cached value and is not an
   identifier reference, evaluate aborts: it returns no value, caches
   nothing, and nothing runs after it; every call either returns a
   ConstantValue or aborts. *)
C19_AbortOnNonIdentifier ==
    \A i \in DOMAIN evalLog :
        /\ evalLog[i].outcome \in {"return", "abort"}
        /\ evalLog[i].outcome = "return" => evalLog[i].value \in ConstantValues
        /\ (~Cached(evalLog[i].before)
               /\ evalLog[i].before.kind /= "IdentifierExpression") =>
                /\ evalLog[i].outcome = "abort"
                /\ evalLog[i].value = NoConstantValue
                /\ evalLog[i].after = evalLog[i].before
                /\ i = Len(evalLog)

C19_Witness ==
    /\ Len(evalLog) = 1
    /\ evalLog[1].before.kind = "LiteralExpression"
    /\ evalLog[1].outcome = "abort"
    /\ ~Cached(expression)

(* C29: from the moment the node carries a cached constant value, every
   evaluate call on it returns that value, whatever the constants map of
   the call holds for the identifier, and leaves the cache as it is. *)
C29_CachedValueWins ==
    \A i, j \in DOMAIN evalLog :
        (i < j /\ Cached(evalLog[i].after)) =>
            /\ evalLog[j].outcome = "return"
            /\ evalLog[j].value = evalLog[i].after.constantValue
            /\ evalLog[j].after.constantValue = evalLog[i].after.constantValue

C29_Witness ==
    /\ Len(evalLog) = 2
    /\ evalLog[1].before =
           [kind |-> "IdentifierExpression", identifier |-> "y",
            constantValue |-> NoConstantValue]
    /\ evalLog[1].constants = [k \in {"y"} |-> "v1"]
    /\ evalLog[2].constants = [k \in {"y"} |-> "v2"]
    /\ evalLog[2].value = "v1"

(* C30: on an identifier expression without a cached value whose name the
   constants map does not hold, evaluate returns, it does not abort: it
   returns the default ConstantValue and caches it on the node; the calls
   that follow return the default too, even with a map that holds the
   name. *)
C30_AbsentNameYieldsDefault ==
    \A i \in DOMAIN evalLog :
        (/\ ~Cached(evalLog[i].before)
         /\ evalLog[i].before.kind = "IdentifierExpression"
         /\ evalLog[i].before.identifier \notin DOMAIN evalLog[i].constants) =>
            /\ evalLog[i].outcome = "return"
            /\ evalLog[i].value = DefaultConstantValue
            /\ evalLog[i].after.constantValue = DefaultConstantValue
            /\ \A j \in DOMAIN evalLog :
                   j > i => /\ evalLog[j].outcome = "return"
                            /\ evalLog[j].value = DefaultConstantValue

C30_Witness ==
    /\ Len(evalLog) = 2
    /\ evalLog[1].before =
           [kind |-> "IdentifierExpression", identifier |-> "x",
            constantValue |-> NoConstantValue]
    /\ evalLog[1].constants = [k \in {"y"} |-> "v1"]
    /\ evalLog[1].value = DefaultConstantValue
    /\ evalLog[2].constants = [k \in {"x"} |-> "v2"]
    /\ evalLog[2].value = DefaultConstantValue

----------------------------------------------------------------------------
(* Properties of generate, under SpecGenerate *)

(* C20: generate returns the text the backend generator produces for the
   call graph and the constant values it is given, leaves the call graph as
   it was, and returns equal texts for equal arguments; nothing of the
   pipeline changes. *)
C20_GeneratePure ==
    /\ \A i \in DOMAIN genLog :
           /\ genLog[i].text =
                  generateMetalCode(genLog[i].callGraph, genLog[i].constantValues)
           /\ genLog[i].callGraphAfter = genLog[i].callGraph
    /\ \A i, j \in DOMAIN genLog :
           (/\ genLog[i].callGraph = genLog[j].callGraph
            /\ genLog[i].constantValues = genLog[j].constantValues) =>
               genLog[i].text = genLog[j].text
    /\ pc = "idle" /\ shaderModule = NoModule /\ evalLog = <<>>

C20_Witness ==
    /\ Len(genLog) = 2
    /\ genLog[1].callGraph.entrypoints = {"main"}
    /\ genLog[1].constantValues = [k \in {"x"} |-> "v1"]
    /\ genLog[2].callGraph = genLog[1].callGraph
    /\ genLog[2].constantValues = genLog[1].constantValues
    /\ genLog[2].text = genLog[1].text
    /\ genLog[2].callGraphAfter = genLog[1].callGraph

----------------------------------------------------------------------------
(* Properties of several pipelines, under SpecConcurrent *)

(* What staticCheck returns for a source: the failure of the first pass
   that fails, in the order of the passes, or a SuccessfulCheck. *)
CheckOutcome(src) ==
    LET p == parse(makeModule(src))
        g == reorderGlobals(p.module)
        t == typeCheck(g.module)
        v == validateAttributes(t.module)
        failed(f) == [kind |-> "FailedCheck", errors |-> f]
    IN CASE p.failure /= {} -> failed(p.failure)
         [] g.failure /= {} -> failed(g.failure)
         [] t.failure /= {} -> failed(t.failure)
         [] v.failure /= {} -> failed(v.failure)
         [] OTHER -> [kind |-> "SuccessfulCheck", warnings |-> {}]

StaticCheckDone(c) == compilations[c].checkResult /= NoResult

PrepareDone(c) == compilations[c].prepareResult /= NoResult

(* C21: what staticCheck returns is determined by the source, and what
   prepare returns by the source and the layout map: two callers that check
   the same source get the same result, and if they then prepare with the
   same layout map they get the same PrepareResult contents or the same
   Error. *)
C21_Deterministic ==
    /\ \A c \in Compilations :
           /\ StaticCheckDone(c) =>
                  compilations[c].checkResult = CheckOutcome(compilations[c].wgsl)
           /\ PrepareDone(c) =>
                  compilations[c].prepareResult =
                      PrepareOutcome(CheckedModule(compilations[c].wgsl),
                                     compilations[c].layouts)
    /\ \A c, d \in Compilations :
           (StaticCheckDone(c) /\ StaticCheckDone(d)
              /\ compilations[c].wgsl = compilations[d].wgsl) =>
               /\ compilations[c].checkResult = compilations[d].checkResult
               /\ (PrepareDone(c) /\ PrepareDone(d)
                     /\ compilations[c].layouts = compilations[d].layouts) =>
                      compilations[c].prepareResult = compilations[d].prepareResult

C21_Witness ==
    /\ compilations["c1"].wgsl = CleanSource
    /\ compilations["c2"].wgsl = CleanSource
    /\ compilations["c1"].layouts = compilations["c2"].layouts
    /\ compilations["c1"].prepareResult.kind = "PrepareResult"
    /\ compilations["c2"].prepareResult = compilations["c1"].prepareResult

(* A caller's state without its debug options and their output. *)
WithoutDebugOutput(r) ==
    [r EXCEPT !.options = NoOptions,
              !.events = SelectSeq(@, LAMBDA e : e.ev \in {"call", "return"})]

(* C22: two callers with the same source and layout map that stand at the
   same line have run the same passes, hold the same module, locals and
   results, whatever their dump and timing options are; and a checked
   module no prepare call is working on is the module staticCheck built,
   dumped or not. *)
C22_DebugOutputObservational ==
    /\ \A c, d \in Compilations :
           (/\ compilations[c].wgsl = compilations[d].wgsl
            /\ compilations[c].layouts = compilations[d].layouts
            /\ compilations[c].pc = compilations[d].pc) =>
               WithoutDebugOutput(compilations[c]) = WithoutDebugOutput(compilations[d])
    /\ \A c \in Compilations :
           (compilations[c].checkResult.kind = "SuccessfulCheck"
              /\ compilations[c].pc \in {"checked", "prepared"}) =>
               AsChecked(compilations[c].module) = CheckedModule(compilations[c].wgsl)
    /\ \A c \in Compilations :
           (compilations[c].checkResult.kind = "SuccessfulCheck"
              /\ compilations[c].pc = "checked") =>
               compilations[c].module = CheckedModule(compilations[c].wgsl)

C22_Witness ==
    /\ compilations["c1"].options = [dumpAST |-> TRUE, logPhaseTimes |-> TRUE]
    /\ compilations["c2"].options = [dumpAST |-> FALSE, logPhaseTimes |-> FALSE]
    /\ compilations["c1"].wgsl = CleanSource
    /\ compilations["c2"].wgsl = CleanSource
    /\ compilations["c1"].layouts = compilations["c2"].layouts
    /\ compilations["c1"].pc = "prepared"
    /\ compilations["c2"].pc = "prepared"
    /\ Len(compilations["c1"].events) > Len(compilations["c2"].events)
    /\ compilations["c1"].prepareResult.kind = "Error"

(* The next state of a caller's pipeline when it runs alone and prepares
   with the given layout map, if any. *)
AloneStep(r, layouts) ==
    CASE r.pc \in SeqToSet(CheckPasses) -> CheckPassLine(r)
      [] r.pc = "staticCheck.return" -> StaticCheckEnd(r)
      [] r.pc = "checked" /\ r.checkResult.kind = "SuccessfulCheck"
            /\ layouts /= NoLayouts -> StartPrepare(r, layouts)
      [] r.pc \in SeqToSet(PrepareSteps) -> PrepareLine(r)
      [] r.pc = "prepare.return" -> PrepareEnd(r)
      [] OTHER -> r

(* The states a pipeline passes through when run alone on these inputs. *)
AloneStates(source, options, layouts) ==
    LET RECURSIVE from(_, _)
        from(r, n) ==
            IF n = 0 THEN {r} ELSE {r} \cup from(AloneStep(r, layouts), n - 1)
    IN from(StartStaticCheck(source, options),
            Len(CheckPasses) + Len(PrepareSteps) + 4)

(* C23: however the steps of the callers' pipelines interleave, each
   caller's pipeline is in a state, with the module, locals and results,
   that it passes through when run alone on its source, options and layout
   map. *)
C23_NoSharedState ==
    \A c \in Compilations :
        compilations[c].pc /= "idle" =>
            compilations[c] \in AloneStates(compilations[c].wgsl,
                                            compilations[c].options,
                                            compilations[c].layouts)

C23_Witness ==
    /\ compilations["c1"].pc = "rewriteGlobalVariables"
    /\ compilations["c1"].wgsl = CleanSource
    /\ compilations["c2"].pc = "typeCheck"
    /\ compilations["c2"].wgsl = [CleanSource EXCEPT !.typeErrors = 1]

(* The calls and returns among a caller's events. *)
CallsAndReturns(c) ==
    SelectSeq(compilations[c].events, LAMBDA e : e.ev \in {"call", "return"})

(* The pipeline call ran the first passes of the list, each to its return,
   and either all of them, without a failure, or up to one that returned
   the failure f. *)
RanToOutcome(c, passes, f) ==
    LET t == CallsAndReturns(c)
        n == Len(t) \div 2
    IN /\ Len(t) = 2 * n
       /\ n \in 1..Len(passes)
       /\ \A i \in 1..n :
              /\ t[2 * i - 1] = [ev |-> "call", pass |-> passes[i], failure |-> {}]
              /\ t[2 * i].ev = "return"
              /\ t[2 * i].pass = passes[i]
              /\ i < n => t[2 * i].failure = {}
       /\ t[2 * n].failure = f
       /\ f = {} => n = Len(passes)

InStaticCheck(c) ==
    compilations[c].pc \in SeqToSet(CheckPasses) \cup {"staticCheck.return"}

InPrepare(c) ==
    compilations[c].pc \in SeqToSet(PrepareSteps) \cup {"prepare.return"}

(* A finished call has one of the two outcomes. *)
TwoOutcomes ==
    \A c \in Compilations :
        /\ compilations[c].pc = "checked" =>
               \/ /\ compilations[c].checkResult.kind = "SuccessfulCheck"
                  /\ RanToOutcome(c, CheckPasses, {})
               \/ /\ compilations[c].checkResult.kind = "FailedCheck"
                  /\ compilations[c].checkResult.errors /= {}
                  /\ RanToOutcome(c, CheckPasses, compilations[c].checkResult.errors)
        /\ compilations[c].pc = "prepared" =>
               \/ /\ compilations[c].prepareResult.kind = "PrepareResult"
                  /\ RanToOutcome(c, PrepareSteps, {})
               \/ /\ compilations[c].prepareResult.kind = "Error"
                  /\ compilations[c].prepareResult.error /= {}
                  /\ RanToOutcome(c, PrepareSteps, compilations[c].prepareResult.error)

(* C24: with every pass returning, every staticCheck call and every prepare
   call returns, and a call that has returned either ran all its passes
   without a failure and holds the success value, or holds the failure of
   the pass it stopped at; no pass is left unreturned. *)
C24_Terminates ==
    /\ []TwoOutcomes
    /\ \A c \in Compilations :
           /\ InStaticCheck(c) ~> (compilations[c].pc = "checked")
           /\ InPrepare(c) ~> (compilations[c].pc = "prepared")

C24_Witness ==
    /\ compilations["c1"].pc = "prepared"
    /\ compilations["c1"].prepareResult.kind = "Error"
    /\ compilations["c1"].checkResult.kind = "SuccessfulCheck"
    /\ Len(CallsAndReturns("c1")) = 2 * Len(PrepareSteps)

(* C28: with the dump option set, every pass invoked has the dump for it
   right before its invocation, and every dump for a pass is followed at
   once by the invocation of that pass, so a pass that is not reached has
   no dump; the end dump of prepare appears only after
   rewriteGlobalVariables returned without a failure; with the option
   unset nothing is dumped. *)
C28_DumpBeforeReachedPass ==
    \A c \in Compilations :
        LET ev == compilations[c].events
            dumped == compilations[c].options.dumpAST
        IN \A k \in DOMAIN ev :
               /\ ev[k].ev = "dump" => dumped
               /\ (ev[k].ev = "call" /\ dumped) =>
                      /\ k > 1
                      /\ ev[k - 1] = [ev |-> "dump", pass |-> ev[k].pass,
                                      failure |-> {}]
               /\ (ev[k].ev = "dump" /\ ev[k].pass /= "end") =>
                      /\ k < Len(ev)
                      /\ ev[k + 1] = [ev |-> "call", pass |-> ev[k].pass,
                                      failure |-> {}]
               /\ (ev[k].ev = "dump" /\ ev[k].pass = "end") =>
                      /\ k > 1
                      /\ ev[k - 1] = [ev |-> "return",
                                      pass |-> "rewriteGlobalVariables",
                                      failure |-> {}]
                      /\ compilations[c].prepareResult.kind = "PrepareResult"

C28_Witness ==
    /\ compilations["c1"].options.dumpAST
    /\ compilations["c1"].pc = "checked"
    /\ compilations["c1"].checkResult.kind = "FailedCheck"
    /\ Len(compilations["c1"].events) = 6
    /\ compilations["c2"].options.dumpAST
    /\ compilations["c2"].pc = "prepared"
    /\ compilations["c2"].prepareResult.kind = "Error"
    /\ Len(compilations["c2"].events) = 3 * Len(PrepareSteps)

----------------------------------------------------------------------------
(* Further properties of the pipeline, under Spec *)

(* C25: once reorderGlobals has succeeded on a module, its globals are the
   declared globals, each once, and none of them depends on one that stands
   later in the list; and reorderGlobals returns a failure exactly when the
   dependencies of the globals have a cycle. *)
C25_GlobalsInDependencyOrder ==
    /\ (shaderModule /= NoModule
          /\ "reorderGlobals" \in SeqToSet(shaderModule.applied)) =>
           LET g == shaderModule.globals
           IN /\ Len(g) = Cardinality(Globals)
              /\ SeqToSet(g) = Globals
              /\ \A i, j \in DOMAIN g :
                     <<g[i], g[j]>> \in shaderModule.source.deps => j < i
    /\ IsCheckTrace =>
           \A k \in DOMAIN trace :
               (trace[k].ev = "return" /\ trace[k].pass = "reorderGlobals") =>
                   (trace[k].failure /= {} <=> CyclicDeps(wgsl.deps))

C25_Witness ==
    /\ pc = "typeCheck"
    /\ wgsl.deps = {<<"a", "b">>}
    /\ shaderModule.globals = <<"b", "a">>

(* C27: a PrepareResult holds exactly the call graph buildCallGraph
   returned in this call, as the later steps transformed it, the
   entry-point map filled in this call, and the CompilationScope constructed
   when the call began; the locals they were moved from are left empty. *)
C27_PrepareResultContents ==
    /\ (pc \in SeqToSet(PrepareSteps) \cup {"prepare.return"}) =>
           compilationScope = "prepareImpl"
    /\ (PrepareReturned /\ prepareResult.kind = "PrepareResult") =>
           LET b == buildCallGraph(CheckedModule(wgsl), pipelineLayouts)
           IN /\ DOMAIN prepareResult = {"kind", "callGraph", "entryPoints"}
              /\ prepareResult.callGraph =
                     [b.callGraph EXCEPT !.steps = PrepareSteps]
              /\ prepareResult.entryPoints =
                     [e \in DOMAIN b.entryPoints |->
                         [b.entryPoints[e] EXCEPT !.mangled = TRUE]]
              /\ compilationScope = "PrepareResult"
              /\ callGraph = NoCallGraph
              /\ entryPoints = NoEntryPoints

C27_Witness ==
    /\ PrepareReturned
    /\ compilationScope = "PrepareResult"
    /\ prepareResult.kind = "PrepareResult"
    /\ prepareResult.callGraph.functions = {"main", "helper"}
    /\ prepareResult.entryPoints =
           [e \in {"main"} |-> [resources |-> {"b0", "b1"}, mangled |-> TRUE]]

(* The step tears a CompilationScope down. *)
ScopeTornDownInStep ==
    compilationScope /= "destroyed" /\ compilationScope' = "destroyed"

(* A scope is torn down once: only a live scope is torn down, the step that
   does so undoes the rewrites made under it and is either the return of an
   Error or the destruction of the PrepareResult, a live scope ends no
   other way, and a scope torn down does not come back to life. *)
ScopeLifetimeStep ==
    /\ ScopeTornDownInStep =>
          (/\ ScopeLive
           /\ shaderModule'.rewritten = <<>>
           /\ \/ /\ compilationScope = "prepareImpl"
                 /\ prepareResult'.kind = "Error"
              \/ /\ compilationScope = "PrepareResult"
                 /\ prepareResult' = NoResult)
    /\ (ScopeLive /\ ~ScopeLive') => ScopeTornDownInStep
    /\ (prepareResult.kind = "PrepareResult" /\ prepareResult' = NoResult)
          => ScopeTornDownInStep
    /\ (compilationScope = "destroyed" /\ ScopeLive') =>
          (/\ compilationScope' = "prepareImpl"
           /\ prepareCalls' = prepareCalls + 1)

(* C31: when prepare returns a PrepareResult the CompilationScope is not
   torn down: the result holds it, and it stays live for as long as the
   result exists and no longer; when prepare returns an Error the scope is
   torn down already; in every case the scope is torn down exactly once. *)
C31_ScopeTornDownOnce ==
    /\ [](/\ (prepareResult.kind = "PrepareResult") <=>
                (compilationScope = "PrepareResult")
          /\ (PrepareReturned /\ prepareResult.kind = "Error") =>
                compilationScope = "destroyed")
    /\ [][ScopeLifetimeStep]_vars

C31_Witness ==
    /\ pc = "checked"
    /\ prepareResult = NoResult
    /\ compilationScope = "destroyed"
    /\ ReturnedClean("rewriteGlobalVariables")
    /\ shaderModule.rewritten = <<>>

----------------------------------------------------------------------------
(* Properties of insertBoundsChecks, under SpecBoundsChecks *)

(* C26: once insertBoundsChecks has run in a prepare call, an access whose
   index is a compile-time constant within the bounds of its array carries
   no runtime check and an access through a runtime-computed index carries
   exactly one; before the pass runs, and after the call's scope has ended,
   no access carries a check. *)
C26_BoundsChecks ==
    \A s \in DOMAIN accesses :
        /\ boundsChecked =>
               /\ (accesses[s].index = "constant"
                     /\ accesses[s].value < accesses[s].length) =>
                      accesses[s].checks = 0
               /\ accesses[s].index = "runtime" => accesses[s].checks = 1
        /\ ~boundsChecked => accesses[s].checks = 0

C26_Witness ==
    /\ boundsChecked
    /\ accesses["s1"] =
           [index |-> "constant", value |-> 2, length |-> 3, checks |-> 0]
    /\ accesses["s2"].index = "runtime"
    /\ accesses["s2"].checks = 1

----------------------------------------------------------------------------
(* Properties of ViewTransition, under SpecViewTransition *)

(* skipViewTransition ran while the phase was before UpdateCallbackCalled. *)
SkippedBeforeUpdateCallback ==
    /\ transition.skippedIn /= "never"
    /\ PhaseBefore(transition.skippedIn, "UpdateCallbackCalled")

(* No task is queued and no update callback is running. *)
TasksDone == transition.tasks = <<>> /\ ScriptIdle

(* C32: callUpdateCallback is invoked at most once per transition, and, once
   the queued tasks have run, exactly once for a transition skipped before
   its phase reached UpdateCallbackCalled. *)
C32_UpdateCallbackOnce ==
    /\ transition.invocations <= 1
    /\ (SkippedBeforeUpdateCallback /\ TasksDone) =>
           transition.invocations = 1

(* C33: the phase never moves back in the order PendingCapture,
   CapturingOldState, UpdateCallbackCalled, Animating, Done, and a phase
   of Done stays Done through every later task, promise callback,
   activateViewTransition and skipTransition. *)
C33_PhaseOnlyForward ==
    [][/\ PhaseIndex(transition.phase) <= PhaseIndex(transition'.phase)
       /\ transition.phase = "Done" => transition'.phase = "Done"]_vars

(* activateViewTransition has been called, by the callback of a fulfilled
   updateCallbackDone, on a transition skipped after its update callback. *)
C33_Witness ==
    /\ transition.phase = "Done"
    /\ transition.skippedIn = "UpdateCallbackCalled"
    /\ transition.updateCallbackDone = "fulfilled"
    /\ transition.reactions = <<>>
    /\ transition.invocations = 1

----------------------------------------------------------------------------
(* Properties of ViewTransition, under FairViewTransition *)

(* The step resolves the ready promise. *)
ReadyResolvedInStep ==
    transition.ready /= "fulfilled" /\ transition'.ready = "fulfilled"

(* The step settles the finished promise. *)
FinishedSettledInStep ==
    transition.finished = "pending" /\ transition'.finished /= "pending"

(* The ready promise is resolved in the step that makes the phase Animating,
   on a transition that was not skipped; the finished promise is settled
   either on a skipped transition whose updateCallbackDone promise has
   settled, and then the same way, or by a transition frame that finds no
   active animation. *)
PromiseSettlingStep ==
    /\ ReadyResolvedInStep =>
          (/\ transition.phase /= "Animating"
           /\ transition'.phase = "Animating"
           /\ transition.skippedIn = "never")
    /\ FinishedSettledInStep =>
          (\/ /\ transition.skippedIn /= "never"
              /\ transition.updateCallbackDone /= "pending"
              /\ transition'.finished = transition.updateCallbackDone
           \/ /\ transition.phase = "Animating"
              /\ ~transition.hasActiveAnimations
              /\ transition'.phase = "Done"
              /\ transition'.finished = "fulfilled")

(* A promise returned by the update callback has settled. *)
CallbackPromiseSettled ==
    \E k \in DOMAIN transition.callbackPromises :
        transition.callbackPromises[k] /= "pending"

(* C34: ready is resolved only by activateViewTransition as the phase
   becomes Animating and never after a skip; finished is settled only after
   updateCallbackDone has settled (on the skip path, fulfilled or rejected
   as that promise is) or by handleTransitionFrame finding no active
   animation; and once the update callback's promise has settled, the
   animations ending, finished is eventually settled. *)
C34_PromisesSettled ==
    /\ [][PromiseSettlingStep]_vars
    /\ CallbackPromiseSettled ~> (transition.finished /= "pending")

(* Ready was resolved on activation, the transition was then skipped while
   animating, and finished was resolved by the skip's callback. *)
C34_Witness ==
    /\ transition.ready = "fulfilled"
    /\ transition.skippedIn = "Animating"
    /\ transition.updateCallbackDone = "fulfilled"
    /\ transition.finished = "fulfilled"

----------------------------------------------------------------------------
(* Properties of History::stateObjectAdded, under SpecHistory *)

(* The step is a call of pushState or replaceState. *)
StateObjectCall == history'.elapsed <= history.elapsed

(* The call of the step has reached the accounting of the main-frame
   History (line 254). *)
CallAccounted == StateObjectCall /\ history'.last.ended /= "checks"

(* C35: the count of calls accepted in the current time span never exceeds
   100; a call that reaches the accounting with 100 calls accepted in a
   span that is not over returns a SecurityError, performs no push or
   replace and is not counted; and the count goes down, to zero before the
   call itself is counted, only in a call that arrives more than 10
   seconds after the start of the span. *)
C35_RateLimit ==
    /\ [](history.added <= perStateObjectTimeSpanLimit)
    /\ [][/\ (/\ CallAccounted
              /\ history.added = perStateObjectTimeSpanLimit
              /\ history.elapsed <= stateObjectTimeSpan) =>
                (/\ history'.last.exception = "SecurityError"
                 /\ history'.last.performed = "none"
                 /\ ~history'.last.notified
                 /\ history'.added = history.added)
          /\ history'.added <= history.added + 1
          /\ history'.added < history.added =>
                (/\ StateObjectCall
                 /\ history.elapsed > stateObjectTimeSpan
                 /\ history'.added <= 1)
          /\ (StateObjectCall /\ history'.elapsed /= history.elapsed) =>
                history.elapsed > stateObjectTimeSpan]_vars

(* The 101st call of a time span, made exactly 10 seconds after its start,
   has been refused. *)
C35_Witness ==
    /\ history.added = perStateObjectTimeSpanLimit
    /\ history.elapsed = stateObjectTimeSpan
    /\ history.last.ended = "rate"
    /\ history.last.exception = "SecurityError"

(* C36: the total usage never exceeds 0x4000000 bytes; a call that ends at
   the quota returns QuotaExceededError; and a call that returns an
   exception leaves the total usage and every most recent usage as they
   were, performs no push or replace and notifies no client. *)
C36_Quota ==
    /\ [](/\ history.total <= totalStateObjectPayloadLimit
          /\ (history.last.ended = "quota" /\ ~history.last.underflow) =>
                history.last.exception = "QuotaExceededError")
    /\ [][(StateObjectCall /\ history'.last.exception /= "none") =>
             (/\ history'.total = history.total
              /\ history'.recent = history.recent
              /\ history'.last.performed = "none"
              /\ ~history'.last.notified)]_vars

(* With the usage at the limit exactly, a call has been refused for the
   quota. *)
C36_Witness ==
    /\ history.total = totalStateObjectPayloadLimit
    /\ history.last.exception = "QuotaExceededError"
    /\ history.last.type = "Push"

(* C37: the most recent usage of each History is at most the total usage of
   the main-frame History, so that the subtraction a Replace makes does not
   underflow. *)
C37_NoUnderflow ==
    /\ ~history.last.underflow
    /\ \A h \in Histories : history.recent[h] <= history.total

(* A Replace has gone through with the whole usage made of the most recent
   usages of the two History objects. *)
C37_Witness ==
    /\ history.last.type = "Replace"
    /\ history.last.ended = "return"
    /\ history.recent["main"] > 0
    /\ history.recent["sub"] > history.recent["main"]
    /\ history.total = history.recent["main"] + history.recent["sub"]

----------------------------------------------------------------------------
(* Properties of WebAuthenticatorCoordinatorProxy, under SpecAuthenticator *)

(* Nothing holds the completion handler of the request any more. *)
RequestOver(r) == authenticator.requests[r].pc \in {"done", "dropped"}

(* C38: the completion handler of a request is invoked at most once, and
   exactly once by the time nothing holds it any more, whether consent was
   refused, the origin rejected, the authenticator answered with a response
   or with an error, or the consent arrived after the proxy was
   destroyed. *)
C38_HandlerInvokedOnce ==
    \A r \in Requests :
        /\ authenticator.requests[r].handlerCalls <= 1
        /\ RequestOver(r) => authenticator.requests[r].handlerCalls = 1

====
